---- MODULE Spec2Model ----
(***************************************************************************)
(* State-machine model of HiNala/code-inspector:                           *)
(*   - KnowledgeBase (src/src/rag/knowledge_base.py): initialize, the      *)
(*     batch embedding cache, the retry wrapper, query;                    *)
(*   - the query front ends (src/rag_query_tool/query_interface.py and     *)
(*     src/src/rag/query_interface.py);                                    *)
(*   - TTSCache (src/rag_query_tool/tts_stt/text_to_speech.py);            *)
(*   - TTSManager (src/src/rag/tts_stt/text_to_speech.py);                 *)
(*   - read_text_aloud over TTSCache (SpecRTA), select_voice (SpecSV),     *)
(*     the pipeline runner MASTER.py (SpecMaster), HotkeyManager and       *)
(*     STTManager.stream_audio (SpecSTT).                                  *)
(* Every subsystem has its own specification; the variables of the other   *)
(* subsystems stay at their initial values there.  SpecRerun runs          *)
(* initialize again (on the same object, or in a later run over the        *)
(* directory); SpecFn calls the filter methods and the cache-key methods  *)
(* on their own; SpecCrash stops the process inside TTSCache.put and       *)
(* constructs the cache again.                                             *)
(*                                                                         *)
(* Strings are sequences of one-character strings.  A digest (md5) is      *)
(* treated as injective on its input string, so a cache key is modelled    *)
(* by the string that is hashed.                                           *)
(***************************************************************************)
EXTENDS Integers, Sequences, FiniteSets, TLC

VARIABLES
  \* ---- KnowledgeBase ------------------------------------------------------
  files,                  \* the contents of the *.md files rglob finds, in order
  cache_dir,              \* cache_dir: key |-> [rows, mtime] of emb_<key>.npy
  clock,                  \* file-system time, stamps the files np.save writes
  summaries,              \* self.summaries
  metadata,               \* self.metadata: position |-> metadata mapping
  embeddings,             \* self.embeddings: <<>> is None, <<rows>> an array
  index,                  \* self.index:      <<>> is None, <<rows>> an index
  embedding_tokens_used,  \* self.embedding_tokens_used
  pc,                     \* where initialize stands
  result,                 \* what initialize returned: "none", "True", "False"
  pos,                    \* number of files the batch loop has consumed
  batch_summaries,        \* batch_summaries of the batch being read
  embs,                   \* the local list `embeddings` of _process_batch_embeddings
  committed,              \* len(summaries) and embedding rows when the last batch finished
  api,                    \* the running / last _api_call_with_retry invocation
  q,                      \* the last KnowledgeBase.query / _generate_embeddings call
  calls,                  \* number of query / _generate_embeddings calls made
  run,                    \* which run over the directory this is, and what it requested
  \* ---- methods called on their own -----------------------------------------
  fn,                     \* the last call: [op, args, ret]
  \* ---- query front end (rag_query_tool/query_interface.py main) ------------
  fe,                     \* the locals of main: category, filters, query, ...
  \* ---- TTSCache (rag_query_tool/tts_stt/text_to_speech.py) -----------------
  max_size,               \* self.max_size
  cache_index,            \* self.cache_index: key |-> [timestamp, text, voice]
  blobs,                  \* the <key>.bin files of cache_dir: key |-> bytes
  cache_index_file,       \* cache_index.pkl: [ok, index]; ok is FALSE when unreadable
  now,                    \* time.time()
  tc,                     \* the running put, the last get, and the history of the cache
  \* ---- TTSManager (src/rag/tts_stt/text_to_speech.py) ----------------------
  speech,                 \* per thread: its read_text_aloud call and its TTSManager
  mp3,                    \* the <key>.mp3 files of cache/tts: key |-> bytes
  cache_info_json,        \* cache/tts/cache_info.json: [exists, ok, info]
  tm_time,                \* time.time()
  \* ---- read_text_aloud (rag_query_tool/tts_stt/text_to_speech.py) ----------
  rta,                    \* the running / last read_text_aloud call
  \* ---- the pipeline runner (MASTER.py) -------------------------------------
  master,                 \* where main stands and the stages it started
  \* ---- select_voice (rag_query_tool/query_interface.py) --------------------
  sv,                     \* voice_selection_active and the select_voice calls
  \* ---- HotkeyManager and STTManager (src/rag/tts_stt) ----------------------
  stt                     \* streaming, the stream queue, the listener, the callback

kbVars == <<files, cache_dir, clock, summaries, metadata, embeddings, index,
            embedding_tokens_used, pc, result, pos, batch_summaries, embs,
            committed, api, q, calls>>

runVars == <<run>>

fnVars == <<fn>>

feVars == <<fe>>

tcVars == <<max_size, cache_index, blobs, cache_index_file, now, tc>>

tmVars == <<speech, mp3, cache_info_json, tm_time>>

rtaVars == <<rta>>

masterVars == <<master>>

svVars == <<sv>>

sttVars == <<stt>>

\* The variables of the subsystems modelled last.
laterVars == <<rtaVars, masterVars, svVars, sttVars>>

vars == <<kbVars, runVars, fnVars, feVars, tcVars, tmVars, laterVars>>

----------------------------------------------------------------------------
\* Bounds of the model.

\* BATCH_SIZE is 10 in the source (knowledge_base.py:28); the model runs the
\* same loop with batches of this size.
BATCH_SIZE == 2
\* EMBEDDING_CTX_LENGTH is 8191 tokens in the source (knowledge_base.py:27).
EMBEDDING_CTX_LENGTH == 2
\* MAX_CACHE_SIZE_GB * 1024**3 bytes in the source (knowledge_base.py:31, 64);
\* here in units of one embedding row.
MAX_CACHE_SIZE == 4
\* Most calls of initialize on one KnowledgeBase.
MaxAttempts == 2
\* Most files a summary directory holds.
MaxFiles == 3
\* Most calls of query and _generate_embeddings in one run.
MaxCalls == 1

MAX_RETRIES == 3

----------------------------------------------------------------------------
\* Generic helpers.

Range(f) == {f[x] : x \in DOMAIN f}

\* dict assignment d[k] = v and del d[k]
DictPut(d, k, v) == [x \in DOMAIN d \cup {k} |-> IF x = k THEN v ELSE d[x]]
DictDel(d, k) == [x \in DOMAIN d \ {k} |-> d[x]]
EmptyDict == [x \in {} |-> 0]

Min(a, b) == IF a <= b THEN a ELSE b

\* ''.join(texts)
RECURSIVE Join(_)
Join(texts) == IF texts = <<>> THEN <<>> ELSE Head(texts) \o Join(Tail(texts))

\* sep.join(parts)
RECURSIVE JoinSep(_, _)
JoinSep(parts, sep) ==
  IF parts = <<>> THEN <<>>
  ELSE IF Len(parts) = 1 THEN parts[1]
  ELSE parts[1] \o <<sep>> \o JoinSep(Tail(parts), sep)

\* s.split(sep): the pieces between the separators, at least one piece
RECURSIVE SplitAcc(_, _, _)
SplitAcc(s, sep, cur) ==
  IF s = <<>> THEN <<cur>>
  ELSE IF Head(s) = sep THEN <<cur>> \o SplitAcc(Tail(s), sep, <<>>)
  ELSE SplitAcc(Tail(s), sep, Append(cur, Head(s)))
Split(s, sep) == SplitAcc(s, sep, <<>>)

----------------------------------------------------------------------------
\* Text processing of the knowledge base.

Whitespace == {" ", "\n"}
Markup == {"*", "~"}

\* re.sub of whitespace runs: every run of whitespace becomes one blank
RECURSIVE CollapseWs(_, _)
CollapseWs(s, inWs) ==
  IF s = <<>> THEN <<>>
  ELSE IF Head(s) \in Whitespace
       THEN (IF inWs THEN <<>> ELSE <<" ">>) \o CollapseWs(Tail(s), TRUE)
       ELSE <<Head(s)>> \o CollapseWs(Tail(s), FALSE)

\* str.strip()
RECURSIVE LStrip(_)
LStrip(s) == IF s # <<>> /\ Head(s) \in Whitespace THEN LStrip(Tail(s)) ELSE s
RECURSIVE RStrip(_)
RStrip(s) ==
  IF s # <<>> /\ s[Len(s)] \in Whitespace THEN RStrip(SubSeq(s, 1, Len(s) - 1)) ELSE s
Strip(s) == RStrip(LStrip(s))

\* _preprocess_text: the emphasis and code markers are removed, whitespace is
\* normalised.  (The texts of the model hold no header or link syntax.)
_preprocess_text(text) ==
  Strip(CollapseWs(SelectSeq(text, LAMBDA c : c \notin Markup), FALSE))

\* self.enc.encode / self.enc.decode: the tokeniser of the model has one
\* token per character.
Encode(text) == [i \in 1..Len(text) |-> <<"token", text[i]>>]
Decode(tokens) == [i \in 1..Len(tokens) |-> tokens[i][2]]

\* A request that carries the text whole.
Truncate_whole(text) == text

\* The text submitted to the embedding service: cut to the context length.
Truncate(text) ==
  IF Len(Encode(text)) > EMBEDDING_CTX_LENGTH
    THEN Decode(SubSeq(Encode(text), 1, EMBEDDING_CTX_LENGTH))
    ELSE text

\* response.data[0].embedding of a request with input `text`: the service is a
\* function of the submitted text.
Embedding(text) == <<"emb", text>>

\* The row the ingest path obtains for a stored summary.
EmbeddingOfSummary(summary) == Embedding(Truncate(_preprocess_text(summary)))

\* _extract_metadata(lines): the optional leading metadata line
\* "<label>: <original-file-path>"; the label is the character "M" here.
_extract_metadata(lines) ==
  IF lines[1] # <<>> /\ lines[1][1] = "M"
    THEN [k \in {"source_file"} |-> Tail(lines[1])]
    ELSE EmptyDict

\* hashlib.md5(''.join(texts).encode()).hexdigest()
BatchCacheKey(texts) == Join(texts)

----------------------------------------------------------------------------
\* The inputs of the model.

FileContents ==
  { <<"a">>, <<"a", "a">>, <<"M", "p", "\n", "a", "a", "a">> }

RECURSIVE SeqsUpTo(_, _)
SeqsUpTo(S, n) ==
  IF n = 0 THEN {<<>>}
  ELSE LET shorter == SeqsUpTo(S, n - 1)
       IN  shorter \cup {Append(s, x) : s \in {t \in shorter : Len(t) = n - 1}, x \in S}

\* What an earlier run, or anything else, left in the cache directory.
\* A file np.load cannot read has readable = FALSE.
PriorKeys == { <<"a">>, <<"a", "a">> }
PriorArrays ==
  { [rows |-> <<Embedding(<<"a">>)>>, mtime |-> 0, readable |-> TRUE],
    [rows |-> <<Embedding(<<"a">>), Embedding(<<"a">>)>>, mtime |-> 0, readable |-> TRUE],
    [rows |-> <<Embedding(<<"a", "a">>)>>, mtime |-> 0, readable |-> TRUE],
    [rows |-> <<Embedding(<<"a">>)>>, mtime |-> 0, readable |-> FALSE] }
PriorCaches == {EmptyDict} \cup {k :> arr : k \in PriorKeys, arr \in PriorArrays}

----------------------------------------------------------------------------
\* KnowledgeBase.__init__ and initialize.

NoCall == [attempt |-> 0, calls |-> 0, sleeps |-> 0, outcome |-> "idle",
           err |-> 0, lastFailed |-> 0, retAttempt |-> 0, input |-> <<>>]

\* An optional argument: <<>> is None, <<v>> is the value v.
None == <<>>
Some(v) == <<v>>

\* No query or _generate_embeddings call was made yet.
NoQuery == [op |-> "none", outcome |-> "none", expansions |-> 0, expansionFailed |-> FALSE,
            expansionCalls |-> 0,
            requests |-> 0, embedFailed |-> FALSE, completions |-> 0, context |-> <<>>,
            rows |-> <<>>, category |-> None, filters |-> None,
            texts |-> <<>>, submitted |-> <<>>]

\* The first run over the summary directory: first call of initialize, no
\* embedding requested yet.
FirstRun == [n |-> 1, attempt |-> 1, unchanged |-> {}, requested |-> {}]

\* No method was called on its own.
NoApply == [op |-> "none", args |-> <<>>, ret |-> FALSE]

\* The subsystems modelled last, before any of them runs.
RTAIdle == [pc |-> "idle", text |-> <<>>, voice |-> <<>>, retry_count |-> 0,
            elevenlabs |-> FALSE, fallback_engine |-> FALSE,
            generated |-> 0, retried |-> {}, failed |-> FALSE, fellBack |-> FALSE,
            ret |-> "none"]
MasterIdle == [pc |-> "idle", exists |-> {}, i |-> 0, started |-> <<>>, exits |-> <<>>,
               missing |-> 0]
Callers == {1, 2}
NoSelect == [pc |-> "idle", available_voices |-> <<>>, selected_idx |-> 0, ret |-> "pending"]
SVIdle == [voice_selection_active |-> FALSE, current_voice |-> "Bella",
           call |-> [c \in Callers |-> NoSelect]]
STTIdle == [pc |-> "new", has_callback |-> FALSE, hk_streaming |-> FALSE,
            streaming |-> FALSE, listening |-> FALSE, stream_queue |-> <<>>,
            heard |-> 0, delivered |-> <<>>]

LaterIdle ==
  /\ rta = RTAIdle
  /\ master = MasterIdle
  /\ sv = SVIdle
  /\ stt = STTIdle

KBInit ==
  /\ LaterIdle
  /\ run = FirstRun
  /\ files \in SeqsUpTo(FileContents, MaxFiles)
  /\ cache_dir \in PriorCaches
  /\ clock = 1
  /\ summaries = <<>>
  /\ metadata = EmptyDict
  /\ embeddings = <<>>
  /\ index = <<>>
  /\ embedding_tokens_used = 0
  /\ pc = "new"
  /\ result = "none"
  /\ pos = 0
  /\ batch_summaries = <<>>
  /\ embs = <<>>
  /\ committed = [docs |-> 0, rows |-> 0]
  /\ api = NoCall
  /\ q = NoQuery
  /\ calls = 0

\* The except clause of initialize: print, return False.
InitializeFails ==
  /\ pc' = "done"
  /\ result' = "False"

\* initialize without the empty-directory check: it goes on to the batches.
InitializeStart_unchecked ==
  /\ pc = "new"
  /\ pc' = "read"
  /\ result' = result
  /\ UNCHANGED <<files, cache_dir, clock, summaries, metadata, embeddings, index,
                 embedding_tokens_used, pos, batch_summaries, embs, committed, api, q, calls>>

\* rglob and the empty-directory check.
InitializeStart ==
  /\ pc = "new"
  /\ IF files = <<>>
       THEN InitializeFails
       ELSE pc' = "read" /\ result' = result
  /\ UNCHANGED <<files, cache_dir, clock, summaries, metadata, embeddings, index,
                 embedding_tokens_used, pos, batch_summaries, embs, committed, api, q, calls>>

\* Batches of a single file.
EndsBatch_single(n) == TRUE

\* _batch_generator: the batch holding file number n (from 1) ends with it.
EndsBatch(n) == n % BATCH_SIZE = 0 \/ n = Len(files)

\* One turn of `for file_path in batch`.  ok is FALSE when open/read or
\* _extract_metadata raises.
ReadFile(ok) ==
  /\ pc = "read"
  /\ IF ~ok
       THEN /\ InitializeFails
            /\ UNCHANGED <<summaries, metadata, batch_summaries, pos>>
       ELSE LET content == files[pos + 1]
                lines == Split(content, "\n")
                md == _extract_metadata(lines)
                idx == Len(summaries)
                summary == IF DOMAIN md # {} THEN JoinSep(Tail(lines), "\n") ELSE content
            IN  /\ metadata' = DictPut(metadata, idx, md)
                /\ summaries' = Append(summaries, summary)
                /\ batch_summaries' = Append(batch_summaries, summary)
                /\ pos' = pos + 1
                /\ pc' = IF EndsBatch(pos + 1) THEN "process" ELSE "read"
                /\ result' = result
  /\ UNCHANGED <<files, cache_dir, clock, embeddings, index, embedding_tokens_used,
                 embs, committed, api, q, calls>>

\* The rows of a batch put in front of the rows of the earlier batches.
FinishBatch_prepend(batch_embeddings) ==
  /\ embeddings' = IF embeddings = <<>> THEN <<batch_embeddings>>
                   ELSE <<batch_embeddings \o embeddings[1]>>
  /\ committed' = [docs |-> Len(summaries),
                    rows |-> (IF embeddings = <<>> THEN 0 ELSE Len(embeddings[1]))
                             + Len(batch_embeddings)]
  /\ batch_summaries' = <<>>
  /\ embs' = <<>>
  /\ pc' = IF pos < Len(files) THEN "read" ELSE "build"
  /\ result' = result

\* "Append to main embeddings array", and the batch loop moves on.
FinishBatch(batch_embeddings) ==
  /\ embeddings' = IF embeddings = <<>> THEN <<batch_embeddings>>
                   ELSE <<embeddings[1] \o batch_embeddings>>
  /\ committed' = [docs |-> Len(summaries),
                    rows |-> (IF embeddings = <<>> THEN 0 ELSE Len(embeddings[1]))
                             + Len(batch_embeddings)]
  /\ batch_summaries' = <<>>
  /\ embs' = <<>>
  /\ pc' = IF pos < Len(files) THEN "read" ELSE "build"
  /\ result' = result

\* _process_batch_embeddings up to the cache lookup.
ProcessBatchBegin ==
  /\ pc = "process"
  /\ LET cache_key == BatchCacheKey(batch_summaries)
     IN  IF cache_key \in DOMAIN cache_dir
           THEN IF cache_dir[cache_key].readable
                  THEN FinishBatch(cache_dir[cache_key].rows)
                  ELSE /\ InitializeFails
                       /\ UNCHANGED <<embeddings, committed, batch_summaries, embs>>
           ELSE /\ pc' = "encode"
                /\ embs' = <<>>
                /\ UNCHANGED <<embeddings, committed, batch_summaries, result>>
  /\ UNCHANGED <<files, cache_dir, clock, summaries, metadata, index,
                 embedding_tokens_used, pos, api, q, calls>>

\* `for text in processed_texts`: count the tokens, truncate, enter
\* _api_call_with_retry.
EncodeText ==
  /\ pc = "encode"
  /\ LET text == _preprocess_text(batch_summaries[Len(embs) + 1])
         tokens == Encode(text)
     IN  /\ embedding_tokens_used' = embedding_tokens_used + Len(tokens)
         /\ api' = [NoCall EXCEPT !.outcome = "running", !.input = Truncate(text)]
  /\ pc' = "attempt"
  /\ UNCHANGED <<files, cache_dir, clock, summaries, metadata, embeddings, index,
                 result, pos, batch_summaries, embs, committed, q, calls>>

IsLastAttempt_off_by_one(attempt) == attempt = MAX_RETRIES

\* `if attempt == MAX_RETRIES - 1: raise e`
IsLastAttempt(attempt) == attempt = MAX_RETRIES - 1

\* One turn of the retry loop: the wrapped call, and the except clause up to
\* the raise.  ok is the outcome of client.embeddings.create.
ApiAttempt(ok) ==
  /\ pc = "attempt"
  /\ LET n == api.calls + 1
     IN  IF ok
           THEN /\ api' = [api EXCEPT !.calls = n, !.outcome = "returned", !.retAttempt = n]
                /\ embs' = Append(embs, Embedding(api.input))
                /\ pc' = IF Len(embs) + 1 = Len(batch_summaries) THEN "save" ELSE "encode"
                /\ result' = result
           ELSE IF IsLastAttempt(api.attempt)
                  THEN /\ api' = [api EXCEPT !.calls = n, !.outcome = "raised",
                                             !.err = n, !.lastFailed = n]
                       /\ InitializeFails
                       /\ embs' = embs
                  ELSE /\ api' = [api EXCEPT !.calls = n, !.lastFailed = n]
                       /\ pc' = "sleep"
                       /\ UNCHANGED <<embs, result>>
  /\ UNCHANGED <<files, cache_dir, clock, summaries, metadata, embeddings, index,
                 embedding_tokens_used, pos, batch_summaries, committed, q, calls>>

\* time.sleep(RETRY_DELAY) and the next turn of `for attempt in range(MAX_RETRIES)`.
\* A loop that runs out returns None, and response.data then raises.
ApiSleep ==
  /\ pc = "sleep"
  /\ IF api.attempt + 1 < MAX_RETRIES
       THEN /\ api' = [api EXCEPT !.sleeps = @ + 1, !.attempt = @ + 1]
            /\ pc' = "attempt"
            /\ result' = result
       ELSE /\ api' = [api EXCEPT !.sleeps = @ + 1, !.attempt = @ + 1,
                                  !.outcome = "exhausted"]
            /\ InitializeFails
  /\ UNCHANGED <<files, cache_dir, clock, summaries, metadata, embeddings, index,
                 embedding_tokens_used, pos, batch_summaries, embs, committed, q, calls>>

RECURSIVE TotalSize(_, _)
TotalSize(dir, keys) ==
  IF keys = {} THEN 0
  ELSE LET k == CHOOSE x \in keys : TRUE
       IN  Len(dir[k].rows) + TotalSize(dir, keys \ {k})

\* cache_files.sort(key=mtime); the order among equal times is glob's.
OldestFiles(dir) == {k \in DOMAIN dir : \A j \in DOMAIN dir : dir[k].mtime <= dir[j].mtime}

\* _manage_cache_size: whether the directory is over the limit.
OverLimit(dir) == TotalSize(dir, DOMAIN dir) > MAX_CACHE_SIZE

\* np.save, _manage_cache_size and the append.  When the cache is over the
\* limit the oldest file is unlinked and file.stat() on the unlinked file
\* raises FileNotFoundError.
SaveBatch(saveOK) ==
  /\ pc = "save"
  /\ LET cache_key == BatchCacheKey(batch_summaries)
         saved == DictPut(cache_dir, cache_key,
                          [rows |-> embs, mtime |-> clock, readable |-> TRUE])
     IN  IF ~saveOK
           THEN /\ InitializeFails
                /\ UNCHANGED <<cache_dir, clock, embeddings, committed, batch_summaries, embs>>
           ELSE /\ clock' = clock + 1
                /\ IF OverLimit(saved)
                     THEN /\ \E file \in OldestFiles(saved) : cache_dir' = DictDel(saved, file)
                          /\ InitializeFails
                          /\ UNCHANGED <<embeddings, committed, batch_summaries, embs>>
                     ELSE /\ cache_dir' = saved
                          /\ FinishBatch(embs)
  /\ UNCHANGED <<files, summaries, metadata, index, embedding_tokens_used, pos, api, q, calls>>

\* "Build FAISS index": embeddings is an array here, the index holds its rows.
BuildIndex ==
  /\ pc = "build"
  /\ index' = <<embeddings[1]>>
  /\ result' = "True"
  /\ pc' = "done"
  /\ UNCHANGED <<files, cache_dir, clock, summaries, metadata, embeddings,
                 embedding_tokens_used, pos, batch_summaries, embs, committed, api, q, calls>>

----------------------------------------------------------------------------
\* initialize called again, and a later run over the same directory.

\* initialize called again on the same KnowledgeBase after it returned False.
\* The call starts its batch loop anew; __init__ is the only place that sets
\* summaries, metadata, embeddings and index to their empty values, so they
\* are what the failed call left.
InitializeAgain ==
  /\ pc = "done"
  /\ result = "False"
  /\ run.attempt < MaxAttempts
  /\ run' = [run EXCEPT !.attempt = @ + 1]
  /\ pos' = 0
  /\ batch_summaries' = <<>>
  /\ embs' = <<>>
  /\ committed' = [docs |-> Len(summaries),
                    rows |-> IF embeddings = <<>> THEN 0 ELSE Len(embeddings[1])]
  /\ IF files = <<>>
       THEN InitializeFails
       ELSE pc' = "read" /\ result' = "none"
  /\ UNCHANGED <<files, cache_dir, clock, summaries, metadata, embeddings, index,
                 embedding_tokens_used, api, q, calls>>

RemoveAt(s, i) == SubSeq(s, 1, i - 1) \o SubSeq(s, i + 1, Len(s))
InsertAt(s, i, x) == SubSeq(s, 1, i - 1) \o <<x>> \o SubSeq(s, i, Len(s))

\* What the summary directory dir can be when the next run starts: as it
\* was, or with one file changed, removed or added.  unchanged holds the
\* positions, in the new directory, of the files whose content is as the
\* earlier run read it.
LaterDirectories(dir) ==
  {[files |-> dir, unchanged |-> 1..Len(dir)]}
  \cup UNION {{[files |-> [dir EXCEPT ![i] = c], unchanged |-> (1..Len(dir)) \ {i}] :
                 c \in FileContents \ {dir[i]}} : i \in 1..Len(dir)}
  \cup {[files |-> RemoveAt(dir, i), unchanged |-> 1..(Len(dir) - 1)] : i \in 1..Len(dir)}
  \cup (IF Len(dir) < MaxFiles
          THEN UNION {{[files |-> InsertAt(dir, i, c), unchanged |-> (1..(Len(dir) + 1)) \ {i}] :
                        c \in FileContents} : i \in 1..(Len(dir) + 1)}
          ELSE {})

\* A later run: after initialize returned True the process ends; a new
\* KnowledgeBase (__init__) is made over the directory d.files, with the
\* cache directory as the earlier run left it.
SecondRun(d) ==
  /\ pc = "done"
  /\ result = "True"
  /\ run.n = 1
  /\ run' = [n |-> 2, attempt |-> 1, unchanged |-> d.unchanged, requested |-> {}]
  /\ files' = d.files
  /\ summaries' = <<>>
  /\ metadata' = EmptyDict
  /\ embeddings' = <<>>
  /\ index' = <<>>
  /\ embedding_tokens_used' = 0
  /\ pc' = "new"
  /\ result' = "none"
  /\ pos' = 0
  /\ batch_summaries' = <<>>
  /\ embs' = <<>>
  /\ committed' = [docs |-> 0, rows |-> 0]
  /\ api' = NoCall
  /\ UNCHANGED <<cache_dir, clock, q, calls>>

\* The position, in the directory, of the summary whose embedding is being
\* requested.
RequestedFile == pos - Len(batch_summaries) + Len(embs) + 1

----------------------------------------------------------------------------
\* KnowledgeBase.query and its helpers.

UpperCase == <<"A", "B", "C", "D", "E", "F", "G", "H", "I", "J", "K", "L", "M", 
               "N", "O", "P", "Q", "R", "S", "T", "U", "V", "W", "X", "Y", "Z">>
LowerCase == <<"a", "b", "c", "d", "e", "f", "g", "h", "i", "j", "k", "l", "m", 
               "n", "o", "p", "q", "r", "s", "t", "u", "v", "w", "x", "y", "z">>

\* str.lower()
LowerChar(c) ==
  IF \E i \in 1..26 : UpperCase[i] = c
    THEN LowerCase[CHOOSE i \in 1..26 : UpperCase[i] = c]
    ELSE c
Lower(s) == [i \in 1..Len(s) |-> LowerChar(s[i])]

\* `sub in s` for strings
Contains(sub, s) ==
  \E i \in 0..(Len(s) - Len(sub)) : SubSeq(s, i + 1, i + Len(sub)) = sub

W_components == <<"c", "o", "m", "p", "o", "n", "e", "n", "t", "s">>
W_utils == <<"u", "t", "i", "l", "s">>
W_api == <<"a", "p", "i">>
W_config == <<"c", "o", "n", "f", "i", "g">>
W_tests == <<"t", "e", "s", "t", "s">>
W_directory == <<"d", "i", "r", "e", "c", "t", "o", "r", "y">>

category_mappings ==
     W_components :> { W_components, <<"u", "i">>,
                       <<"i", "n", "t", "e", "r", "f", "a", "c", "e">> }
  @@ W_utils :> { W_utils, <<"h", "e", "l", "p", "e", "r", "s">>, <<"l", "i", "b">> }
  @@ W_api :> { W_api, <<"e", "n", "d", "p", "o", "i", "n", "t", "s">>,
                <<"r", "o", "u", "t", "e", "s">> }
  @@ W_config :> { W_config, <<"s", "e", "t", "t", "i", "n", "g", "s">>,
                   <<"e", "n", "v">> }
  @@ W_tests :> { W_tests, <<"s", "p", "e", "c", "s">>,
                  <<"_", "_", "t", "e", "s", "t", "s", "_", "_">> }

\* A category test that compares the directory as it is written.
\* A category that is not in the table matches no document.
_matches_category_unknown_refused(md, category) ==
  IF category = <<>> THEN TRUE
  ELSE IF category \notin DOMAIN category_mappings THEN FALSE
  ELSE LET directory == Lower(IF W_directory \in DOMAIN md THEN md[W_directory] ELSE <<>>)
       IN  \E term \in category_mappings[category] : Contains(term, directory)

_matches_category_case_sensitive(md, category) ==
  IF category = <<>> THEN TRUE
  ELSE IF category \notin DOMAIN category_mappings THEN TRUE
  ELSE LET directory == IF W_directory \in DOMAIN md THEN md[W_directory] ELSE <<>>
       IN  \E term \in category_mappings[category] : Contains(term, directory)

\* _matches_category(metadata, category); category is a string here.
_matches_category(md, category) ==
  IF category = <<>> THEN TRUE
  ELSE IF category \notin DOMAIN category_mappings THEN TRUE
  ELSE LET directory == Lower(IF W_directory \in DOMAIN md THEN md[W_directory] ELSE <<>>)
       IN  \E term \in category_mappings[category] : Contains(term, directory)

\* A filter that lets a document through when one of its keys matches.
_matches_filters_any(md, filters) ==
  IF DOMAIN filters = {} THEN TRUE
  ELSE \E key \in DOMAIN filters : key \in DOMAIN md /\ md[key] = filters[key]

\* _matches_filters(metadata, filters); filters is a dict here.
_matches_filters(md, filters) ==
  IF DOMAIN filters = {} THEN TRUE
  ELSE \A key \in DOMAIN filters : key \in DOMAIN md /\ md[key] = filters[key]

\* `if category and ...`, `if filters and ...`: None and the empty value are falsy.
Truthy(opt) == opt # None /\ opt[1] # <<>>

\* The documents of the search result that query keeps, in order.
RECURSIVE FilterIndices(_, _, _)
FilterIndices(I, category, filters) ==
  IF I = <<>> THEN <<>>
  ELSE LET idx == Head(I)
           rest == FilterIndices(Tail(I), category, filters)
           md == IF idx \in DOMAIN metadata THEN metadata[idx] ELSE EmptyDict
       IN  IF idx < 0 \/ idx >= Len(summaries) THEN rest
           ELSE IF Truthy(category) /\ ~_matches_category(md, category[1]) THEN rest
           ELSE IF Truthy(filters) /\ ~_matches_filters(md, filters[1]) THEN rest
           ELSE <<idx>> \o rest

\* The leading numbering and bullets of a line of the expansion reply.
Numbering == {"1", "2", "3", "-", "*", ".", " ", "\n"}
RECURSIVE DropNumbering(_)
DropNumbering(term) ==
  IF term # <<>> /\ Head(term) \in Numbering THEN DropNumbering(Tail(term)) ELSE term

\* _expand_search_terms: reply is the completion call's outcome.
_expand_search_terms(query, reply) ==
  IF ~reply.ok THEN <<>>
  ELSE LET raw == Split(reply.content, "\n")
           cleaned == [i \in 1..Len(raw) |-> Strip(DropNumbering(raw[i]))]
       IN  SelectSeq(cleaned, LAMBDA term : term # <<>> /\ term # query)

\* A call of _generate_embeddings(self, texts, spinner) with the positional
\* arguments args; failAt is the request that fails (0: none does).  A call
\* that does not bind spinner raises TypeError before the body runs; the
\* body's except clause returns np.array([]).
_generate_embeddings(args, failAt) ==
  IF Len(args) # 2
    THEN [raised |-> TRUE, rows |-> <<>>, requests |-> 0, tokens |-> 0, failed |-> FALSE,
          submitted |-> <<>>]
    ELSE LET texts == args[1]
             n == Len(texts)
             last == IF failAt \in 1..n THEN failAt ELSE n
             RECURSIVE Tokens(_)
             Tokens(i) == IF i = 0 THEN 0 ELSE Len(Encode(texts[i])) + Tokens(i - 1)
         IN  [raised |-> FALSE,
              rows |-> IF failAt \in 1..n THEN <<>>
                       ELSE [i \in 1..n |-> Embedding(Truncate(texts[i]))],
              requests |-> last,
              \* the text of each request made, as passed in input=
              submitted |-> [i \in 1..last |-> Truncate(texts[i])],
              tokens |-> Tokens(last),
              failed |-> failAt \in 1..n]

QueryOnException_reraise == "raised"

\* The except clause of query: print, return None, None.
QueryOnException == "nonepair"

QueryTexts == { <<"a">> }
ExpansionReplies ==
  { [ok |-> FALSE, content |-> <<>>],
    [ok |-> TRUE, content |-> <<"1", ".", " ", "b", "\n", "\n", "a">>],
    [ok |-> TRUE, content |-> <<"a">>] }

\* KnowledgeBase.query(query, category, filters).  reply is the outcome of
\* the expansion call, complOK that of the answer completion.
Query(query, category, filters, reply, complOK) ==
  /\ LET expanded_terms == _expand_search_terms(query, reply)
         expanded_query == JoinSep(<<query>> \o expanded_terms, " ")
         \* line 196 passes the list of texts alone
         emb == _generate_embeddings(<< <<_preprocess_text(expanded_query)>> >>, 0)
         base == [NoQuery EXCEPT !.op = "query", !.category = category,
                                 !.filters = filters,
                                 !.expansions = Len(expanded_terms),
                                 !.expansionFailed = ~reply.ok,
                                 !.expansionCalls = 1,
                                 !.submitted = emb.submitted,
                                 !.requests = emb.requests, !.embedFailed = emb.failed]
         k == Min(5, Len(summaries))
     IN  /\ embedding_tokens_used' = embedding_tokens_used + emb.tokens
         /\ IF emb.raised \/ index = None \/ emb.rows = <<>>
              THEN q' = [base EXCEPT !.outcome = QueryOnException]
              ELSE \E I \in [1..k -> -1..(Len(index[1]) - 1)] :
                     LET filtered_indices == FilterIndices(I, category, filters)
                     IN  IF filtered_indices = <<>>
                           THEN q' = [base EXCEPT !.outcome = "nonepair"]
                           ELSE IF complOK
                             THEN q' = [base EXCEPT !.outcome = "answer", !.completions = 1,
                                                    !.context = filtered_indices]
                             ELSE q' = [base EXCEPT !.outcome = QueryOnException,
                                                    !.completions = 1,
                                                    !.context = filtered_indices]
  /\ UNCHANGED <<files, cache_dir, clock, summaries, metadata, embeddings, index,
                 pc, result, pos, batch_summaries, embs, committed, api>>

\* A caller of the knowledge base calls query, in any state initialize is
\* not running in.
CallQuery(query, category, filters, reply, complOK) ==
  /\ pc \in {"new", "done"}
  /\ calls < MaxCalls
  /\ calls' = calls + 1
  /\ Query(query, category, filters, reply, complOK)

\* A direct call _generate_embeddings(texts, spinner).
GenerateEmbeddings(texts, failAt) ==
  /\ pc \in {"new", "done"}
  /\ calls < MaxCalls
  /\ calls' = calls + 1
  /\ LET emb == _generate_embeddings(<<texts, "spinner">>, failAt)
     IN  /\ embedding_tokens_used' = embedding_tokens_used + emb.tokens
         /\ q' = [NoQuery EXCEPT !.op = "generate",
                                 !.outcome = IF emb.raised THEN "raised" ELSE "array",
                                 !.rows = emb.rows,
                                 !.texts = texts, !.submitted = emb.submitted,
                                 !.requests = emb.requests, !.embedFailed = emb.failed]
  /\ UNCHANGED <<files, cache_dir, clock, summaries, metadata, embeddings, index,
                 pc, result, pos, batch_summaries, embs, committed, api>>

\* TTSManager: the state of a run in which nothing is read aloud.
Threads == {1, 2}
NoCacheInfo == [files |-> EmptyDict, total_size |-> 0]
NoSpeech == [pc |-> "idle", text |-> <<>>, voice |-> <<>>, attempt |-> 0,
             cache_info |-> NoCacheInfo, holds |-> FALSE, waiting |-> FALSE,
             ret |-> "none", calls |-> 0]
TMIdle ==
  /\ speech = [t \in Threads |-> NoSpeech]
  /\ mp3 = EmptyDict
  /\ cache_info_json = [exists |-> FALSE, ok |-> TRUE, info |-> NoCacheInfo]
  /\ tm_time = 0

\* TTSCache: the state of a run that constructs none.
\* What the evictions so far did: whether there was one, and whether each
\* removed an entry of the smallest timestamp.
NoEviction == [happened |-> FALSE, oldest |-> TRUE]

TCStart == [pc |-> "idle", text |-> <<>>, voice |-> <<>>, audio_data |-> "d1",
            ret |-> None, got |-> FALSE, puts |-> 0, faults |-> 0,
            evicted |-> NoEviction, stored |-> EmptyDict]

TCIdle ==
  /\ max_size = 1
  /\ cache_index = EmptyDict
  /\ blobs = EmptyDict
  /\ cache_index_file = [ok |-> TRUE, index |-> EmptyDict]
  /\ now = 0
  /\ tc = TCStart

\* A run calls initialize before any query-side call, or not at all.
KBNext ==
  \/ calls = 0 /\ InitializeStart /\ UNCHANGED <<runVars, fnVars, feVars, tcVars, tmVars, laterVars>>
  \/ \E ok \in BOOLEAN : ReadFile(ok) /\ UNCHANGED <<runVars, fnVars, feVars, tcVars, tmVars, laterVars>>
  \/ ProcessBatchBegin /\ UNCHANGED <<runVars, fnVars, feVars, tcVars, tmVars, laterVars>>
  \/ EncodeText /\ UNCHANGED <<runVars, fnVars, feVars, tcVars, tmVars, laterVars>>
  \/ \E ok \in BOOLEAN : ApiAttempt(ok) /\ UNCHANGED <<runVars, fnVars, feVars, tcVars, tmVars, laterVars>>
  \/ ApiSleep /\ UNCHANGED <<runVars, fnVars, feVars, tcVars, tmVars, laterVars>>
  \/ \E saveOK \in BOOLEAN : SaveBatch(saveOK) /\ UNCHANGED <<runVars, fnVars, feVars, tcVars, tmVars, laterVars>>
  \/ BuildIndex /\ UNCHANGED <<runVars, fnVars, feVars, tcVars, tmVars, laterVars>>
  \/ \E query \in QueryTexts, reply \in ExpansionReplies, complOK \in BOOLEAN :
       CallQuery(query, None, None, reply, complOK) /\ UNCHANGED <<runVars, fnVars, feVars, tcVars, tmVars, laterVars>>
  \/ \E failAt \in 0..1 :
       GenerateEmbeddings(<< <<"a", "*", "a", "a">> >>, failAt) /\ UNCHANGED <<runVars, fnVars, feVars, tcVars, tmVars, laterVars>>

\* The front end before main runs.
FEIdle == [pc |-> "start", input |-> <<>>, category |-> None, filters |-> EmptyDict,
           query |-> <<>>, asked |-> FALSE, last_response |-> None,
           queries |-> 0, turns |-> 0,
           \* what was typed so far, and what the last Ctrl+N since the last
           \* query did: "none", "nothing to read", or the response spoken
           inputs |-> <<>>, ctrl_n |-> "none"]

KBInitial == KBInit /\ fn = NoApply /\ fe = FEIdle /\ TCIdle /\ TMIdle

SpecKB == KBInitial /\ [][KBNext]_vars

----------------------------------------------------------------------------
\* The filters of query: _matches_filters and _matches_category called on
\* their own, and query called with a category and filters.

W_file_type == <<"f", "i", "l", "e", "_", "t", "y", "p", "e">>
W_language == <<"l", "a", "n", "g">>

DirectorySamples ==
  { <<>>, W_api, <<"s", "r", "c", "/", "A", "P", "I">>, <<"U", "i">>, <<"z", "z">> }
FileTypeSamples == { <<"p", "y">>, <<"m", "d">> }

\* Metadata mappings, with and without a directory and a file type.
MetadataSamples ==
  {EmptyDict}
  \cup {W_directory :> d : d \in DirectorySamples}
  \cup {W_file_type :> t : t \in FileTypeSamples}
  \cup {W_directory :> d @@ W_file_type :> t : d \in DirectorySamples, t \in FileTypeSamples}

FilterSamples ==
  {EmptyDict, W_language :> <<"p", "y">>}
  \cup {W_file_type :> t : t \in FileTypeSamples}
  \cup {W_directory :> d @@ W_file_type :> t : d \in {W_api, <<"z", "z">>}, t \in FileTypeSamples}

\* The keys of the category table, a key in capitals, a name that is no key.
CategorySamples == DOMAIN category_mappings \cup {<<"A", "P", "I">>, <<"z">>}

\* kb._matches_filters(md, filters)
MatchesFilters(md, filters) ==
  /\ fn.op = "none"
  /\ fn' = [op |-> "_matches_filters", args |-> <<md, filters>>,
            ret |-> _matches_filters(md, filters)]
  /\ UNCHANGED <<kbVars, runVars, feVars, tcVars, tmVars, laterVars>>

\* kb._matches_category(md, category)
MatchesCategory(md, category) ==
  /\ fn.op = "none"
  /\ fn' = [op |-> "_matches_category", args |-> <<md, category>>,
            ret |-> _matches_category(md, category)]
  /\ UNCHANGED <<kbVars, runVars, feVars, tcVars, tmVars, laterVars>>

\* Runs of initialize alone: a failed call may be followed by another call on
\* the same object, a successful run by a second run over the directory.
RerunNext ==
  \/ InitializeStart /\ UNCHANGED <<runVars, fnVars, feVars, tcVars, tmVars, laterVars>>
  \/ \E ok \in BOOLEAN : ReadFile(ok) /\ UNCHANGED <<runVars, fnVars, feVars, tcVars, tmVars, laterVars>>
  \/ ProcessBatchBegin /\ UNCHANGED <<runVars, fnVars, feVars, tcVars, tmVars, laterVars>>
  \/ EncodeText /\ UNCHANGED <<runVars, fnVars, feVars, tcVars, tmVars, laterVars>>
  \/ \E ok \in BOOLEAN :
       /\ ApiAttempt(ok)
       /\ run' = [run EXCEPT !.requested = @ \cup {RequestedFile}]
       /\ UNCHANGED <<fnVars, feVars, tcVars, tmVars, laterVars>>
  \/ ApiSleep /\ UNCHANGED <<runVars, fnVars, feVars, tcVars, tmVars, laterVars>>
  \/ \E saveOK \in BOOLEAN : SaveBatch(saveOK) /\ UNCHANGED <<runVars, fnVars, feVars, tcVars, tmVars, laterVars>>
  \/ BuildIndex /\ UNCHANGED <<runVars, fnVars, feVars, tcVars, tmVars, laterVars>>
  \/ InitializeAgain /\ UNCHANGED <<fnVars, feVars, tcVars, tmVars, laterVars>>
  \/ \E d \in LaterDirectories(files) : SecondRun(d) /\ UNCHANGED <<fnVars, feVars, tcVars, tmVars, laterVars>>

SpecRerun == KBInitial /\ [][RerunNext]_vars

----------------------------------------------------------------------------
\* The query front end: main of rag_query_tool/query_interface.py.

Digits == {"0", "1", "2", "3", "4", "5", "6", "7", "8", "9"}
\* \w of the regular expressions
WordChars == Range(UpperCase) \cup Range(LowerCase) \cup Digits \cup {"_"}

\* Length of the longest run of characters of `class` (or, with inClass
\* FALSE, outside it) that starts at position i of s.
RECURSIVE RunLength(_, _, _, _)
RunLength(s, i, class, inClass) ==
  IF i > Len(s) \/ ((s[i] \in class) # inClass) THEN 0
  ELSE 1 + RunLength(s, i + 1, class, inClass)

\* re.match(r'@(\w+):(.*)', query).  (The inputs hold no line break.)
CategoryMatch(query) ==
  LET n == RunLength(query, 2, WordChars, TRUE)
  IN  IF query # <<>> /\ query[1] = "@" /\ n >= 1
         /\ n + 2 <= Len(query) /\ query[n + 2] = ":"
        THEN [matched |-> TRUE, group1 |-> SubSeq(query, 2, n + 1),
              group2 |-> SubSeq(query, n + 3, Len(query))]
        ELSE [matched |-> FALSE, group1 |-> <<>>, group2 |-> <<>>]

\* re.finditer(r'#(\w+):([^\s]+)', query): the matches from position i on,
\* left to right, without overlap.
RECURSIVE FilterMatches(_, _)
FilterMatches(s, i) ==
  IF i > Len(s) THEN <<>>
  ELSE LET n == RunLength(s, i + 1, WordChars, TRUE)
           m == RunLength(s, i + n + 2, Whitespace, FALSE)
       IN  IF s[i] = "#" /\ n >= 1 /\ i + n + 1 <= Len(s) /\ s[i + n + 1] = ":" /\ m >= 1
             THEN << [group0 |-> SubSeq(s, i, i + n + 1 + m),
                      key |-> SubSeq(s, i + 1, i + n),
                      value |-> SubSeq(s, i + n + 2, i + n + 1 + m)] >>
                  \o FilterMatches(s, i + n + 2 + m)
             ELSE FilterMatches(s, i + 1)

\* str.replace(old, ''): every occurrence of old, left to right, is removed.
RECURSIVE RemoveAll(_, _)
RemoveAll(s, old) ==
  IF Len(s) < Len(old) \/ old = <<>> THEN s
  ELSE IF SubSeq(s, 1, Len(old)) = old
         THEN RemoveAll(SubSeq(s, Len(old) + 1, Len(s)), old)
         ELSE <<Head(s)>> \o RemoveAll(Tail(s), old)

\* The loop over filter_matches: filters[key] = value and the token is
\* replaced in query, which is stripped.
RECURSIVE ApplyFilterMatches(_, _, _)
ApplyFilterMatches(matches, filters, query) ==
  IF matches = <<>> THEN [filters |-> filters, query |-> query]
  ELSE LET match == Head(matches)
       IN  ApplyFilterMatches(Tail(matches),
                              DictPut(filters, match.key, match.value),
                              Strip(RemoveAll(query, match.group0)))

\* "Parse category and metadata filters from query" (lines 341-357).
ParseQuery(input) ==
  LET category_match == CategoryMatch(input)
      category == IF category_match.matched THEN Some(category_match.group1) ELSE None
      query == IF category_match.matched THEN Strip(category_match.group2) ELSE input
      parsed == ApplyFilterMatches(FilterMatches(query, 1), EmptyDict, query)
  IN  [category |-> category, filters |-> parsed.filters, query |-> parsed.query]

W_quit == <<"q", "u", "i", "t">>
W_exit == <<"e", "x", "i", "t">>
W_q == <<"q">>
W_help == <<"h", "e", "l", "p">>

\* What the user types at the prompt (input().strip()).
QueryInputs ==
  { <<"x">>,
    <<"@", "a", "p", "i", ":", "x">>,
    <<"#", "k", ":", "v", " ", "x">>,
    <<"@", "a", "p", "i", ":", "#", "k", ":", "v", " ", "x">>,
    <<"x", " ", "#", "k", ":", "v", " ", "#", "k", ":", "v", "w">> }
OtherInputs == { <<>>, W_help, <<"Q">> }

\* Most inputs typed in one session.
MaxTurns == 2

\* main going on to the query loop whatever initialize returned.
FEAfterInitialize_unchecked ==
  /\ fe.pc = "init"
  /\ pc = "done"
  /\ fe' = [fe EXCEPT !.pc = "loop"]
  /\ UNCHANGED <<runVars, fnVars, kbVars, tcVars, tmVars, laterVars>>

\* `if not kb.initialize(): return`, once initialize has returned.
FEAfterInitialize ==
  /\ fe.pc = "init"
  /\ pc = "done"
  /\ fe' = [fe EXCEPT !.pc = IF result = "True" THEN "loop" ELSE "exit"]
  /\ UNCHANGED <<runVars, fnVars, kbVars, tcVars, tmVars, laterVars>>

\* A turn that counts its input as a query whatever it is.
FENoQuery_counted(input) ==
  /\ fe.pc = "loop"
  /\ fe.turns < MaxTurns
  /\ input \in OtherInputs
  /\ fe' = [fe EXCEPT !.pc = IF Lower(input) \in {W_quit, W_exit, W_q} THEN "exit" ELSE "loop",
                      !.input = input, !.asked = FALSE, !.turns = @ + 1,
                      !.queries = @ + 1, !.inputs = Append(@, input)]
  /\ UNCHANGED <<runVars, fnVars, kbVars, tcVars, tmVars, laterVars>>

\* A turn of the loop that asks nothing: quit, help, or an empty input.
FENoQuery(input) ==
  /\ fe.pc = "loop"
  /\ fe.turns < MaxTurns
  /\ input \in OtherInputs
  /\ fe' = [fe EXCEPT !.pc = IF Lower(input) \in {W_quit, W_exit, W_q} THEN "exit" ELSE "loop",
                      !.input = input, !.asked = FALSE, !.turns = @ + 1,
                      !.inputs = Append(@, input)]
  /\ UNCHANGED <<runVars, fnVars, kbVars, tcVars, tmVars, laterVars>>

\* A turn of the loop with a query: count it, parse the filters, call
\* kb.query(query), keep the answer.
FEAsk(input, reply, complOK) ==
  /\ fe.pc = "loop"
  /\ fe.turns < MaxTurns
  /\ Lower(input) \notin {W_quit, W_exit, W_q, W_help}
  /\ input # <<>>
  /\ LET parsed == ParseQuery(input)
     IN  /\ Query(parsed.query, None, None, reply, complOK)
         /\ calls' = calls
         /\ fe' = [fe EXCEPT !.input = input, !.asked = TRUE, !.turns = @ + 1,
                             !.inputs = Append(@, input), !.ctrl_n = "none",
                             !.queries = @ + 1,
                             !.category = parsed.category,
                             !.filters = parsed.filters,
                             !.query = parsed.query,
                             !.last_response =
                                IF q'.outcome = "answer" THEN Some("answer") ELSE None]
  /\ UNCHANGED <<runVars, fnVars, tcVars, tmVars, laterVars>>

\* read_last_response, the callback of Ctrl+N, while main is in its loop.
FEReadLastResponse ==
  /\ fe.pc = "loop"
  /\ fe' = [fe EXCEPT !.ctrl_n = IF fe.last_response # None
                                   THEN fe.last_response[1] ELSE "nothing to read"]
  /\ UNCHANGED <<runVars, fnVars, kbVars, tcVars, tmVars, laterVars>>

\* The parameters after self, in order, as [name, required].
KnowledgeBase_init_params ==
  << [name |-> "summary_dir", required |-> TRUE],
     [name |-> "model", required |-> FALSE],
     [name |-> "cache_dir", required |-> FALSE] >>
KnowledgeBase_initialize_params == <<>>

\* Python's binding of a call's arguments to the parameters: FALSE is a
\* TypeError (too many positional arguments, an unknown keyword, or a
\* required parameter left without a value).
Binds(params, positional, keywords) ==
  /\ positional <= Len(params)
  /\ keywords \subseteq {params[i].name : i \in (positional + 1)..Len(params)}
  /\ \A i \in (positional + 1)..Len(params) :
       params[i].required => params[i].name \in keywords

\* QueryInterface.initialize: False when the summaries directory is missing;
\* self.kb.initialize(summaries_dir), whose result is not looked at, and
\* True; False when anything raised.
QueryInterface_initialize(dirExists) ==
  IF ~dirExists THEN FALSE
  ELSE IF ~Binds(KnowledgeBase_initialize_params, 1, {}) THEN FALSE
  ELSE TRUE

\* main of src/rag/query_interface.py: QueryInterface() makes its
\* KnowledgeBase with KnowledgeBase(model=model); a TypeError there leaves
\* main.  Then `if interface.initialize(): interface.run(use_voice=False)`.
QIMain(dirExists) ==
  /\ fe.pc = "qi_main"
  /\ fe' = [fe EXCEPT !.pc =
              IF ~Binds(KnowledgeBase_init_params, 0, {"model"}) THEN "crashed"
              ELSE IF QueryInterface_initialize(dirExists) THEN "qi_run"
              ELSE "exit"]
  /\ UNCHANGED <<runVars, fnVars, kbVars, tcVars, tmVars, laterVars>>

\* The front end is main of rag_query_tool/query_interface.py ("init") or
\* main of src/rag/query_interface.py ("qi_main").
FEInit ==
  /\ KBInit
  /\ files \in { <<>>, << <<"a">> >>, << <<"M", "p", "\n", "a">>, <<"*", "a">> >> }
  /\ cache_dir = EmptyDict
  /\ fn = NoApply
  /\ fe \in {[FEIdle EXCEPT !.pc = "init"], [FEIdle EXCEPT !.pc = "qi_main"]}
  /\ TCIdle
  /\ TMIdle

FENext ==
  \/ fe.pc = "init" /\ InitializeStart /\ UNCHANGED <<runVars, fnVars, feVars, tcVars, tmVars, laterVars>>
  \/ \E ok \in BOOLEAN : ReadFile(ok) /\ UNCHANGED <<runVars, fnVars, feVars, tcVars, tmVars, laterVars>>
  \/ ProcessBatchBegin /\ UNCHANGED <<runVars, fnVars, feVars, tcVars, tmVars, laterVars>>
  \/ EncodeText /\ UNCHANGED <<runVars, fnVars, feVars, tcVars, tmVars, laterVars>>
  \/ \E ok \in BOOLEAN : ApiAttempt(ok) /\ UNCHANGED <<runVars, fnVars, feVars, tcVars, tmVars, laterVars>>
  \/ ApiSleep /\ UNCHANGED <<runVars, fnVars, feVars, tcVars, tmVars, laterVars>>
  \/ \E saveOK \in BOOLEAN : SaveBatch(saveOK) /\ UNCHANGED <<runVars, fnVars, feVars, tcVars, tmVars, laterVars>>
  \/ BuildIndex /\ UNCHANGED <<runVars, fnVars, feVars, tcVars, tmVars, laterVars>>
  \/ FEAfterInitialize
  \/ \E dirExists \in BOOLEAN : QIMain(dirExists)
  \/ \E input \in OtherInputs : FENoQuery(input)
  \/ FEReadLastResponse
  \/ \E input \in QueryInputs, reply \in ExpansionReplies, complOK \in BOOLEAN :
       FEAsk(input, reply, complOK)

SpecFE == FEInit /\ [][FENext]_vars

\* The restriction a query argument applies: None and the empty value apply none.
Restriction(opt) == IF Truthy(opt) THEN opt[1] ELSE <<>>

\* C4: for an input with a leading @category: token and/or #key:value
\* tokens, the retrieval is restricted by that category and by exactly those
\* filters (they are what query receives), and no document failing them is
\* in the context of the answer.
C4_FiltersRestrictRetrieval ==
  fe.asked =>
    /\ Restriction(q.category) = Restriction(fe.category)
    /\ Restriction(q.filters) = fe.filters
    /\ \A i \in 1..Len(q.context) :
         LET md == metadata[q.context[i]]
         IN  /\ Truthy(fe.category) => _matches_category(md, fe.category[1])
             /\ _matches_filters(md, fe.filters)

----------------------------------------------------------------------------
\* TTSCache (rag_query_tool/tts_stt/text_to_speech.py).

\* Largest max_size a cache is constructed with.
MaxSize == 2
\* Most put calls in one run.
MaxPuts == 2
\* Most failing file operations (open, read, write, unlink, dump) in one run.
MaxFaults == 1

TTSTexts == { <<"a">>, <<"a", ":", "b">> }
TTSVoices == { <<"c">>, <<"b", ":", "c">> }
AudioData == { "d1", "d2" }

\* _get_cache_key: md5(f"{text}:{voice}")
_get_cache_key(text, voice) == text \o <<":">> \o voice

Entry(timestamp, text, voice) == [timestamp |-> timestamp, text |-> text, voice |-> voice]

\* What earlier runs left in the cache directory.
KeyAC == _get_cache_key(<<"a">>, <<"c">>)
KeyABC == _get_cache_key(<<"a", ":", "b">>, <<"c">>)
KeyABBC == _get_cache_key(<<"a", ":", "b">>, <<"b", ":", "c">>)
PriorIndexAll ==
     KeyAC :> Entry(0, <<"a">>, <<"c">>)
  @@ KeyABC :> Entry(1, <<"a", ":", "b">>, <<"c">>)
  @@ KeyABBC :> Entry(1, <<"a", ":", "b">>, <<"b", ":", "c">>)
PriorDirs ==
  { [file |-> [ok |-> TRUE, index |-> EmptyDict], blobs |-> EmptyDict],
    [file |-> [ok |-> FALSE, index |-> EmptyDict], blobs |-> (KeyAC :> "d1")],
    [file |-> [ok |-> TRUE, index |-> PriorIndexAll],
     blobs |-> (KeyAC :> "d1" @@ KeyABC :> "d2" @@ KeyABBC :> "d1")],
    [file |-> [ok |-> TRUE, index |-> (KeyAC :> Entry(0, <<"a">>, <<"c">>))],
     blobs |-> EmptyDict] }

\* _load_cache_index
_load_cache_index(file) == IF file.ok THEN file.index ELSE EmptyDict

\* TTSCache.__init__
TCInit ==
  /\ max_size \in 1..MaxSize
  /\ \E dir \in PriorDirs :
       /\ cache_index_file = dir.file
       /\ blobs = dir.blobs
       /\ cache_index = _load_cache_index(dir.file)
  /\ now = 2
  /\ tc = TCStart

\* _save_cache_index: open(.., 'wb') and pickle.dump.  A failed open leaves
\* the file, a failed dump leaves an unreadable file.
SaveOutcomes == {"ok", "open_failed", "dump_failed"}
_save_cache_index(idx, file, outcome) ==
  CASE outcome = "ok" -> [ok |-> TRUE, index |-> idx]
    [] outcome = "open_failed" -> file
    [] outcome = "dump_failed" -> [ok |-> FALSE, index |-> EmptyDict]

\* _remove_cache_entry(cache_key): the state it leaves.  An exception of
\* unlink or of the save is swallowed where it happens.
_remove_cache_entry(cache_key, unlinkOK, save) ==
  IF cache_key \notin DOMAIN cache_index
    THEN [index |-> cache_index, blobs |-> blobs, file |-> cache_index_file]
  ELSE IF cache_key \in DOMAIN blobs /\ ~unlinkOK
    THEN [index |-> cache_index, blobs |-> blobs, file |-> cache_index_file]
  ELSE [index |-> DictDel(cache_index, cache_key),
        blobs |-> DictDel(blobs, cache_key),
        file |-> _save_cache_index(DictDel(cache_index, cache_key), cache_index_file, save)]

OldestKeys_newest(idx) ==
  {k \in DOMAIN idx : \A j \in DOMAIN idx : idx[k].timestamp >= idx[j].timestamp}

\* min(self.cache_index.items(), key=timestamp)[0]; among equal timestamps
\* the dict order decides.
OldestKeys(idx) ==
  {k \in DOMAIN idx : \A j \in DOMAIN idx : idx[k].timestamp <= idx[j].timestamp}

\* `while len(self.cache_index) >= self.max_size`
EvictionNeeded(idx) == Cardinality(DOMAIN idx) >= max_size

\* The smallest timestamp in the index.
MinTimestamp(idx) ==
  CHOOSE t \in {idx[k].timestamp : k \in DOMAIN idx} :
    \A k \in DOMAIN idx : t <= idx[k].timestamp

\* The puts on record, without the pairs whose cache key is k.
Forget(stored, k) ==
  [p \in DOMAIN stored \ {r \in DOMAIN stored : _get_cache_key(r[1], r[2]) = k} |-> stored[p]]

\* The number of failed operations among oks, a sequence of "it succeeded".
Failures(oks) == Cardinality({i \in DOMAIN oks : ~oks[i]})

\* put is called.
PutBegin(text, voice, audio_data) ==
  /\ tc.pc = "idle"
  /\ tc.puts < MaxPuts
  /\ tc' = [tc EXCEPT !.pc = "put", !.text = text, !.voice = voice,
                      !.audio_data = audio_data, !.got = FALSE, !.ret = None]
  /\ UNCHANGED <<max_size, cache_index, blobs, cache_index_file, now>>

\* One turn of the eviction loop of put.
PutEvict(unlinkOK, save) ==
  /\ tc.pc = "put"
  /\ EvictionNeeded(cache_index)
  /\ tc.faults + Failures(<<unlinkOK, save = "ok">>) <= MaxFaults
  /\ \E oldest_key \in OldestKeys(cache_index) :
       LET after == _remove_cache_entry(oldest_key, unlinkOK, save)
           gone == oldest_key \notin DOMAIN after.index
       IN  \* an operation that is not reached does not fail
           /\ oldest_key \notin DOMAIN blobs => unlinkOK
           /\ ~gone => save = "ok"
           /\ cache_index' = after.index
           /\ blobs' = after.blobs
           /\ cache_index_file' = after.file
           /\ tc' = IF gone
                      THEN [tc EXCEPT !.faults = @ + Failures(<<unlinkOK, save = "ok">>),
                                      !.evicted = [happened |-> TRUE,
                                        oldest |-> @.oldest /\
                                          cache_index[oldest_key].timestamp =
                                            MinTimestamp(cache_index)],
                                      !.stored = Forget(tc.stored, oldest_key)]
                      ELSE [tc EXCEPT !.faults = @ + Failures(<<unlinkOK>>)]
  /\ UNCHANGED <<max_size, now>>

\* The rest of put: write the blob, enter the key in the index, save the
\* index.  write is the outcome of open and f.write; any exception ends put
\* with a warning.
WriteOutcomes == {"ok", "open_failed", "write_failed"}
\* put returns: its locals are gone.
Returned(t, failed) ==
  [t EXCEPT !.pc = "idle", !.puts = @ + 1, !.text = <<>>, !.voice = <<>>,
            !.audio_data = "d1", !.faults = @ + failed]
PutWrite(write, save, dt) ==
  /\ tc.pc = "put"
  /\ ~EvictionNeeded(cache_index)
  /\ tc.faults + Failures(<<write = "ok", save = "ok">>) <= MaxFaults
  /\ write # "ok" => save = "ok"
  /\ LET cache_key == _get_cache_key(tc.text, tc.voice)
         entered == DictPut(cache_index, cache_key, Entry(now + dt, tc.text, tc.voice))
     IN  /\ now' = now + dt
         /\ CASE write = "open_failed" ->
                   /\ UNCHANGED <<cache_index, blobs, cache_index_file>>
                   /\ tc' = Returned(tc, 1)
              [] write = "write_failed" ->
                   /\ blobs' = DictPut(blobs, cache_key, "partial")
                   /\ UNCHANGED <<cache_index, cache_index_file>>
                   /\ tc' = Returned(tc, 1)
              [] write = "ok" ->
                   /\ blobs' = DictPut(blobs, cache_key, tc.audio_data)
                   /\ cache_index' = entered
                   /\ cache_index_file' = _save_cache_index(entered, cache_index_file, save)
                   /\ tc' = [Returned(tc, Failures(<<save = "ok">>)) EXCEPT
                              !.stored = DictPut(tc.stored, <<tc.text, tc.voice>>,
                                                 tc.audio_data)]
  /\ UNCHANGED max_size

\* get(text, voice).  readOK is FALSE when opening or reading the blob raises.
Get(text, voice, readOK, unlinkOK, save) ==
  /\ tc.pc = "idle"
  /\ tc.faults + Failures(<<readOK, unlinkOK, save = "ok">>) <= MaxFaults
  \* an operation that is not reached does not fail
  /\ readOK => unlinkOK
  /\ (readOK \/ ~unlinkOK) => save = "ok"
  /\ LET cache_key == _get_cache_key(text, voice)
         after == _remove_cache_entry(cache_key, unlinkOK, save)
     IN  IF cache_key \in DOMAIN cache_index /\ cache_key \in DOMAIN blobs
           THEN IF readOK
                  THEN /\ tc' = [tc EXCEPT !.ret = Some(blobs[cache_key]), !.got = TRUE,
                                           !.text = text, !.voice = voice]
                       /\ UNCHANGED <<cache_index, blobs, cache_index_file>>
                  ELSE /\ cache_index' = after.index
                       /\ blobs' = after.blobs
                       /\ cache_index_file' = after.file
                       /\ tc' = [tc EXCEPT !.ret = None, !.got = TRUE,
                                           !.text = text, !.voice = voice,
                                           !.faults = @ + Failures(<<readOK, unlinkOK,
                                                                     save = "ok">>),
                                           !.stored = IF cache_key \in DOMAIN after.index
                                                        THEN @ ELSE Forget(@, cache_key)]
           ELSE /\ readOK
                /\ tc' = [tc EXCEPT !.ret = None, !.got = TRUE,
                                    !.text = text, !.voice = voice]
                /\ UNCHANGED <<cache_index, blobs, cache_index_file>>
  /\ UNCHANGED <<max_size, now>>

\* No KnowledgeBase is constructed and main does not run.
KBIdle == KBInit /\ files = <<>> /\ cache_dir = EmptyDict /\ fn = NoApply /\ fe = FEIdle

TCInitial == KBIdle /\ TMIdle /\ TCInit

\* No KnowledgeBase, no cache and no front end: the state the other
\* programs and callbacks start in.
NothingRuns == KBIdle /\ TCIdle /\ TMIdle

TCNext ==
  \/ \E text \in TTSTexts, voice \in TTSVoices, audio_data \in AudioData :
       PutBegin(text, voice, audio_data) /\ UNCHANGED <<runVars, fnVars, kbVars, feVars, tmVars, laterVars>>
  \/ \E unlinkOK \in BOOLEAN, save \in SaveOutcomes :
       PutEvict(unlinkOK, save) /\ UNCHANGED <<runVars, fnVars, kbVars, feVars, tmVars, laterVars>>
  \/ \E write \in WriteOutcomes, save \in SaveOutcomes, dt \in 0..1 :
       PutWrite(write, save, dt) /\ UNCHANGED <<runVars, fnVars, kbVars, feVars, tmVars, laterVars>>
  \/ \E text \in TTSTexts, voice \in TTSVoices, readOK \in BOOLEAN,
        unlinkOK \in BOOLEAN, save \in SaveOutcomes :
       Get(text, voice, readOK, unlinkOK, save) /\ UNCHANGED <<runVars, fnVars, kbVars, feVars, tmVars, laterVars>>

SpecTC == TCInitial /\ [][TCNext]_vars

\* The process stops inside a put.  point says how far the turn of the
\* eviction loop, or the rest of put, has come: the blob of the oldest entry
\* is unlinked, its entry deleted from self.cache_index, the index file
\* opened with 'wb' (truncated) and not yet dumped; or the blob is being
\* written, is written, the entry is in self.cache_index and the index file
\* opened and not yet dumped.  cache_index stays as it was in memory when the
\* process stopped.
CrashPoints == {"unlinked", "deleted", "saving_eviction", "writing", "written", "saving_entry"}
Crash(point) ==
  /\ tc.pc = "put"
  /\ IF EvictionNeeded(cache_index)
       THEN /\ point \in {"unlinked", "deleted", "saving_eviction"}
            /\ \E oldest_key \in OldestKeys(cache_index) :
                 /\ blobs' = DictDel(blobs, oldest_key)
                 /\ cache_index' = IF point = "unlinked" THEN cache_index
                                   ELSE DictDel(cache_index, oldest_key)
                 /\ cache_index_file' =
                      IF point = "saving_eviction"
                        THEN _save_cache_index(DictDel(cache_index, oldest_key),
                                               cache_index_file, "dump_failed")
                        ELSE cache_index_file
       ELSE LET cache_key == _get_cache_key(tc.text, tc.voice)
                entered == DictPut(cache_index, cache_key, Entry(now, tc.text, tc.voice))
            IN  /\ point \in {"writing", "written", "saving_entry"}
                /\ blobs' = DictPut(blobs, cache_key,
                                    IF point = "writing" THEN "partial" ELSE tc.audio_data)
                /\ cache_index' = IF point = "saving_entry" THEN entered ELSE cache_index
                /\ cache_index_file' =
                     IF point = "saving_entry"
                       THEN _save_cache_index(entered, cache_index_file, "dump_failed")
                       ELSE cache_index_file
  /\ tc' = [tc EXCEPT !.pc = "crashed"]
  /\ UNCHANGED <<max_size, now>>

\* The next run: TTSCache.__init__ loads the index from the file.
Restart ==
  /\ tc.pc = "crashed"
  /\ cache_index' = _load_cache_index(cache_index_file)
  /\ tc' = Returned(tc, 0)
  /\ UNCHANGED <<max_size, blobs, cache_index_file, now>>

\* A cache directory in which the index file is readable and lists the
\* keys that have a blob.
CrashInitial ==
  /\ TCInitial
  /\ cache_index_file.ok
  /\ DOMAIN cache_index = DOMAIN blobs

CrashNext ==
  \/ \E text \in TTSTexts, voice \in TTSVoices, audio_data \in AudioData :
       PutBegin(text, voice, audio_data) /\ UNCHANGED <<runVars, fnVars, kbVars, feVars, tmVars, laterVars>>
  \/ \E unlinkOK \in BOOLEAN, save \in SaveOutcomes :
       PutEvict(unlinkOK, save) /\ UNCHANGED <<runVars, fnVars, kbVars, feVars, tmVars, laterVars>>
  \/ \E write \in WriteOutcomes, save \in SaveOutcomes, dt \in 0..1 :
       PutWrite(write, save, dt) /\ UNCHANGED <<runVars, fnVars, kbVars, feVars, tmVars, laterVars>>
  \/ \E text \in TTSTexts, voice \in TTSVoices, readOK \in BOOLEAN,
        unlinkOK \in BOOLEAN, save \in SaveOutcomes :
       Get(text, voice, readOK, unlinkOK, save) /\ UNCHANGED <<runVars, fnVars, kbVars, feVars, tmVars, laterVars>>
  \/ \E point \in CrashPoints : Crash(point) /\ UNCHANGED <<runVars, fnVars, kbVars, feVars, tmVars, laterVars>>
  \/ Restart /\ UNCHANGED <<runVars, fnVars, kbVars, feVars, tmVars, laterVars>>

SpecCrash == CrashInitial /\ [][CrashNext]_vars

----------------------------------------------------------------------------
\* select_voice of rag_query_tool/query_interface.py, the callback of Ctrl+L.
\* A caller is a hotkey callback running select_voice.

\* What get_available_voices returns ([] also when it failed).
VoiceLists == { <<>>, <<"Bella">>, <<"Adam", "Bella">>, <<"Adam", "Rachel">> }

\* available_voices.index(current_voice), counted from 0, or 0.
IndexOf(voices, voice) ==
  IF \E i \in 1..Len(voices) : voices[i] = voice
    THEN (CHOOSE i \in 1..Len(voices) :
            voices[i] = voice /\ \A j \in 1..(i - 1) : voices[j] # voice) - 1
    ELSE 0

\* select_voice from its entry to the panel: the test of the flag, the flag
\* set, the voices fetched.
SelectVoice(c, available_voices) ==
  /\ sv.call[c].pc = "idle"
  /\ sv' =
       IF sv.voice_selection_active
         THEN [sv EXCEPT !.call[c] = [NoSelect EXCEPT !.ret = "None"]]
       ELSE IF available_voices = <<>>
         THEN [sv EXCEPT !.voice_selection_active = FALSE,
                         !.call[c] = [NoSelect EXCEPT !.ret = "None"]]
       ELSE [sv EXCEPT !.voice_selection_active = TRUE,
                       !.call[c] = [pc |-> "panel", available_voices |-> available_voices,
                                    selected_idx |-> IndexOf(available_voices, sv.current_voice),
                                    ret |-> "pending"]]

PanelKeys == {"up", "down", "enter", "esc"}

\* One turn of the loop of the panel in which a key is found pressed.  ok is
\* FALSE when a call made in that turn raises: keyboard.is_pressed,
\* live.update, or show_notification, which starts a second live display
\* inside `with Live(...)`.  Nothing catches it.
PanelKey(c, key, ok) ==
  /\ sv.call[c].pc = "panel"
  /\ LET call == sv.call[c]
         n == Len(call.available_voices)
         selected_voice == call.available_voices[call.selected_idx + 1]
         left(r) == [NoSelect EXCEPT !.ret = r]
     IN  sv' =
           CASE ~ok /\ key # "enter" ->
                  [sv EXCEPT !.call[c] = left("raised")]
             [] ~ok /\ key = "enter" ->
                  [sv EXCEPT !.current_voice = selected_voice, !.call[c] = left("raised")]
             [] ok /\ key = "up" ->
                  [sv EXCEPT !.call[c].selected_idx = (@ - 1) % n]
             [] ok /\ key = "down" ->
                  [sv EXCEPT !.call[c].selected_idx = (@ + 1) % n]
             [] ok /\ key = "enter" ->
                  [sv EXCEPT !.current_voice = selected_voice,
                             !.voice_selection_active = FALSE,
                             !.call[c] = left(selected_voice)]
             [] ok /\ key = "esc" ->
                  [sv EXCEPT !.voice_selection_active = FALSE, !.call[c] = left("None")]

SVOthers == <<kbVars, runVars, fnVars, feVars, tcVars, tmVars, rtaVars, masterVars, sttVars>>

SVNext ==
  \/ \E c \in Callers, available_voices \in VoiceLists :
       SelectVoice(c, available_voices) /\ UNCHANGED SVOthers
  \/ \E c \in Callers, key \in PanelKeys, ok \in BOOLEAN :
       PanelKey(c, key, ok) /\ UNCHANGED SVOthers

SpecSV == NothingRuns /\ [][SVNext]_vars

----------------------------------------------------------------------------
\* HotkeyManager._toggle_streaming (src/rag/tts_stt/hotkeys.py) and
\* transcribe_streaming / STTManager.stream_audio (speech_to_text.py).  One
\* HotkeyManager, as setup_voice_interface returns it, and at most one
\* transcription at a time.

\* Most items the listener puts on the queue of one transcription.
MaxHeard == 3

\* What audio_callback puts on the queue: ("text", text) or ("error", ...).
\* id is the number of the phrase, so that equal texts stay apart.
Item(id, msg_type) == [id |-> id, msg_type |-> msg_type]

PassedToCallback_whatever(item, callback) == callback

\* `if msg_type == "text": ... if callback: callback(content)`
PassedToCallback(item, callback) == item.msg_type = "text" /\ callback

\* setup_voice_interface(callback): HotkeyManager() and, with a callback,
\* set_callback.
SetupVoiceInterface(callback) ==
  /\ stt.pc = "new"
  /\ stt' = [STTIdle EXCEPT !.pc = "idle", !.has_callback = callback]

\* Ctrl+S while no transcription runs: _toggle_streaming, and when it goes
\* on to transcribe_streaming, STTManager() and stream_audio up to its loop.
\* Without set_callback self.callback raises AttributeError; started is
\* FALSE when STTManager() or listen_in_background raises.
ToggleStreaming(started) ==
  /\ stt.pc = "idle"
  /\ (stt.hk_streaming \/ ~stt.has_callback) => started
  /\ stt' = IF stt.hk_streaming
              THEN [stt EXCEPT !.hk_streaming = FALSE]
            ELSE IF ~stt.has_callback \/ ~started
              THEN [stt EXCEPT !.hk_streaming = TRUE]
            ELSE [stt EXCEPT !.hk_streaming = TRUE, !.pc = "loop", !.streaming = TRUE,
                             !.listening = TRUE, !.stream_queue = <<>>, !.heard = 0,
                             !.delivered = <<>>]

\* Ctrl+S while the transcription runs and HotkeyManager.streaming is True:
\* the else branch of _toggle_streaming.
ToggleWhileStreaming ==
  /\ stt.pc = "loop"
  /\ stt.hk_streaming
  /\ stt' = [stt EXCEPT !.hk_streaming = FALSE]

\* audio_callback in the listener thread: one phrase, recognised or not.
AudioCallback(msg_type) ==
  /\ stt.listening
  /\ stt.heard < MaxHeard
  /\ stt' = [stt EXCEPT !.heard = @ + 1,
                        !.stream_queue = Append(@, Item(stt.heard + 1, msg_type))]

\* One turn of `while self.streaming`: Esc ends the loop; else the next item,
\* if there is one, is taken and handled.  ok is FALSE when callback or
\* live.update raises, which ends the loop too.
StreamTurn(esc, ok) ==
  /\ stt.pc = "loop"
  /\ esc => ok
  /\ stt' =
       IF esc THEN [stt EXCEPT !.streaming = FALSE, !.pc = "stopping"]
       ELSE LET taken == stt.stream_queue # <<>>
                after == IF taken
                           THEN [stt EXCEPT !.stream_queue = Tail(@),
                                            !.delivered =
                                               IF PassedToCallback(Head(stt.stream_queue),
                                                                   stt.has_callback)
                                                 THEN Append(@, Head(stt.stream_queue))
                                                 ELSE @]
                           ELSE stt
            IN  IF ok THEN after ELSE [after EXCEPT !.pc = "stopping"]

\* stop_listening(wait_for_stop=False), the finally clause, and the return
\* to _toggle_streaming: the listener ends on its own later.
StreamStop ==
  /\ stt.pc = "stopping"
  /\ stt' = [stt EXCEPT !.pc = "idle", !.streaming = FALSE]

\* The listener thread ends.
ListenerEnds ==
  /\ stt.pc = "idle"
  /\ stt.listening
  /\ stt' = [stt EXCEPT !.listening = FALSE]

STTOthers == <<kbVars, runVars, fnVars, feVars, tcVars, tmVars, rtaVars, masterVars, svVars>>

STTNext ==
  \/ \E callback \in BOOLEAN : SetupVoiceInterface(callback) /\ UNCHANGED STTOthers
  \/ \E started \in BOOLEAN : ToggleStreaming(started) /\ UNCHANGED STTOthers
  \/ ToggleWhileStreaming /\ UNCHANGED STTOthers
  \/ \E msg_type \in {"text", "error"} : AudioCallback(msg_type) /\ UNCHANGED STTOthers
  \/ \E esc \in BOOLEAN, ok \in BOOLEAN : StreamTurn(esc, ok) /\ UNCHANGED STTOthers
  \/ StreamStop /\ UNCHANGED STTOthers
  \/ ListenerEnds /\ UNCHANGED STTOthers

SpecSTT == NothingRuns /\ [][STTNext]_vars

----------------------------------------------------------------------------
\* The pipeline runner, MASTER.py.

\* scripts: main.py, summarize_files.py, rag_query_tool/query_interface.py
Scripts == <<"main.py", "summarize_files.py", "rag_query_tool/query_interface.py">>

\* Largest return code of a stage.
MaxReturnCode == 2
\* How subprocess.run ends: the child's return code, an OSError when the
\* child cannot be started, or Ctrl+C while waiting.
Exited(returncode) == [how |-> "exited", returncode |-> returncode]
RunOutcomes ==
  {Exited(c) : c \in 0..MaxReturnCode}
    \cup {[how |-> "oserror", returncode |-> -1], [how |-> "interrupt", returncode |-> -1]}

run_script_optimistic(outcome) == TRUE

\* run_script: with check=True a return code other than 0 raises
\* CalledProcessError; every Exception gives False.
run_script(outcome) == outcome = Exited(0)

\* main is entered; exists says which of the scripts are on disk.
MasterMain(exists) ==
  /\ master.pc = "idle"
  /\ master' = [MasterIdle EXCEPT !.pc = "check", !.exists = exists, !.i = 1]

\* `if not os.path.exists(script["path"]): break`, else the child is started.
MasterCheck ==
  /\ master.pc = "check"
  /\ master' = IF master.i \in master.exists
                 THEN [master EXCEPT !.pc = "running",
                                     !.started = Append(@, Scripts[master.i])]
                 ELSE [master EXCEPT !.pc = "done", !.missing = master.i]

\* The child ends and run_script returns; `if not success: break`, else the
\* next script, or the end of the list.  KeyboardInterrupt is no Exception:
\* it leaves main and the process exits with 1.
MasterRun(outcome) ==
  /\ master.pc = "running"
  /\ master' =
       IF outcome.how = "interrupt"
         THEN [master EXCEPT !.pc = "interrupted", !.exits = Append(@, outcome)]
       ELSE IF run_script(outcome) /\ master.i < Len(Scripts)
         THEN [master EXCEPT !.pc = "check", !.i = @ + 1, !.exits = Append(@, outcome)]
       ELSE [master EXCEPT !.pc = "done", !.exits = Append(@, outcome)]

\* While the pipeline runs a script is created or removed, by a stage or by
\* anyone else.
MasterFileChange(k) ==
  /\ master.pc \in {"check", "running"}
  /\ master' = [master EXCEPT !.exists = IF k \in @ THEN @ \ {k} ELSE @ \cup {k}]

MasterOthers == <<kbVars, runVars, fnVars, feVars, tcVars, tmVars, rtaVars, svVars, sttVars>>

MasterNext ==
  \/ \E exists \in SUBSET (1..Len(Scripts)) : MasterMain(exists) /\ UNCHANGED MasterOthers
  \/ MasterCheck /\ UNCHANGED MasterOthers
  \/ \E outcome \in RunOutcomes : MasterRun(outcome) /\ UNCHANGED MasterOthers
  \/ \E k \in 1..Len(Scripts) : MasterFileChange(k) /\ UNCHANGED MasterOthers

SpecMaster == NothingRuns /\ [][MasterNext]_vars

----------------------------------------------------------------------------
\* read_text_aloud of rag_query_tool/tts_stt/text_to_speech.py, over the
\* module's tts_cache.

\* MAX_RETRIES of rag_query_tool/tts_stt/text_to_speech.py
RTA_MAX_RETRIES == 3

\* What generate(text=, voice=) and play(audio) do: return, or raise an
\* error whose message mentions network or timeout, the api key, or neither.
GenerateOutcomes == {"ok", "network", "api key", "other"}
PlayOutcomes == {"ok", "network", "other"}

\* read_text_aloud returns b, or leaves with an exception ("raised").
RTAReturns(r, b) == [r EXCEPT !.pc = "done", !.ret = b]

\* read_text_aloud(text, voice) is called.  elevenlabs is
\* `TTS_PROVIDER == "elevenlabs" and ELEVENLABS_API_KEY`, fallback_engine
\* whether pyttsx3.init() succeeded when the module was loaded.
RTACall(text, voice, elevenlabs, fallback_engine) ==
  /\ rta.pc = "idle"
  /\ rta' = [RTAIdle EXCEPT !.pc = "get", !.text = text, !.voice = voice,
                            !.elevenlabs = elevenlabs,
                            !.fallback_engine = fallback_engine]
  /\ UNCHANGED tcVars

\* "Check cache first": tts_cache.get, and play(cached_audio) outside any
\* try; then the choice of the provider.
RTACheckCache(readOK, unlinkOK, save, played) ==
  /\ rta.pc = "get"
  /\ Get(rta.text, rta.voice, readOK, unlinkOK, save)
  /\ tc'.ret = None => played = "ok"
  /\ rta' = IF tc'.ret # None
              THEN RTAReturns(rta, IF played = "ok" THEN "True" ELSE "raised")
            ELSE IF rta.elevenlabs THEN [rta EXCEPT !.pc = "generate"]
            ELSE IF rta.fallback_engine THEN [rta EXCEPT !.pc = "fallback"]
            ELSE RTAReturns(rta, "False")

\* The except clause: the recursive call after a network error, else the
\* fallback engine, else False.
RTAExcept(r, error) ==
  IF r.retry_count < RTA_MAX_RETRIES /\ error = "network"
    THEN [r EXCEPT !.pc = "get", !.retry_count = @ + 1, !.retried = @ \cup {error}]
  ELSE IF r.fallback_engine THEN [r EXCEPT !.pc = "fallback", !.failed = TRUE]
  ELSE RTAReturns([r EXCEPT !.failed = TRUE], "False")

\* audio = generate(text=text, voice=voice), and the call of tts_cache.put.
RTAGenerate(outcome) ==
  /\ rta.pc = "generate"
  /\ LET called == [rta EXCEPT !.generated = @ + 1]
     IN  IF outcome = "ok"
           THEN /\ PutBegin(rta.text, rta.voice, "d1")
                /\ rta' = [called EXCEPT !.pc = "put"]
           ELSE /\ rta' = RTAExcept(called, outcome)
                /\ UNCHANGED tcVars

\* play(audio), once tts_cache.put has returned.
RTAPlay(outcome) ==
  /\ rta.pc = "put"
  /\ tc.pc = "idle"
  /\ rta' = IF outcome = "ok" THEN RTAReturns(rta, "True") ELSE RTAExcept(rta, outcome)
  /\ UNCHANGED tcVars

\* _use_fallback_tts: True, or False when the engine raises.
RTAFallback(ok) ==
  /\ rta.pc = "fallback"
  /\ rta' = RTAReturns([rta EXCEPT !.fellBack = TRUE], IF ok THEN "True" ELSE "False")
  /\ UNCHANGED tcVars

RTAOthers == <<kbVars, runVars, fnVars, feVars, tmVars, masterVars, svVars, sttVars>>

RTANext ==
  \/ \E text \in TTSTexts, voice \in TTSVoices, elevenlabs \in BOOLEAN, fallback_engine \in BOOLEAN :
       RTACall(text, voice, elevenlabs, fallback_engine) /\ UNCHANGED RTAOthers
  \/ \E readOK \in BOOLEAN, unlinkOK \in BOOLEAN, save \in SaveOutcomes, played \in PlayOutcomes :
       RTACheckCache(readOK, unlinkOK, save, played) /\ UNCHANGED RTAOthers
  \/ \E outcome \in GenerateOutcomes : RTAGenerate(outcome) /\ UNCHANGED RTAOthers
  \/ \E unlinkOK \in BOOLEAN, save \in SaveOutcomes :
       rta.pc = "put" /\ PutEvict(unlinkOK, save) /\ UNCHANGED <<RTAOthers, rtaVars>>
  \/ \E write \in WriteOutcomes, save \in SaveOutcomes, dt \in 0..1 :
       rta.pc = "put" /\ PutWrite(write, save, dt) /\ UNCHANGED <<RTAOthers, rtaVars>>
  \/ \E outcome \in PlayOutcomes : RTAPlay(outcome) /\ UNCHANGED RTAOthers
  \/ \E ok \in BOOLEAN : RTAFallback(ok) /\ UNCHANGED RTAOthers

SpecRTA == TCInitial /\ [][RTANext]_vars

\* C7: once a put has completed, the index never holds more than max_size
\* entries; every evicted entry had the smallest timestamp of the index at
\* that moment; a get changes no timestamp.
C7_EvictionBound ==
  /\ [](/\ tc.puts >= 1 => Cardinality(DOMAIN cache_index) <= max_size
        /\ tc.evicted.happened => tc.evicted.oldest)
  /\ [][tc'.got => \A k \in DOMAIN cache_index' :
                     k \in DOMAIN cache_index /\ cache_index'[k] = cache_index[k]]_vars

\* A put on a full cache has evicted an entry and completed.
C7_Witness ==
  /\ tc.puts >= 2
  /\ tc.evicted.happened
  /\ Cardinality(DOMAIN cache_index) = max_size

\* C8: when no file operation has failed, get(text, voice) returns the data
\* of the last put of that pair, as long as its entry was not evicted.
C8_GetReturnsPut ==
  (tc.got /\ tc.faults = 0 /\ <<tc.text, tc.voice>> \in DOMAIN tc.stored) =>
    tc.ret = Some(tc.stored[<<tc.text, tc.voice>>])

----------------------------------------------------------------------------
\* TTSManager and read_text_aloud (src/rag/tts_stt/text_to_speech.py).  Each
\* thread is a caller of read_text_aloud, such as a hotkey callback.

\* Most read_text_aloud calls of one thread.
MaxSpeak == 2
\* MAX_RETRIES of src/rag/tts_stt/text_to_speech.py
TTS_MAX_RETRIES == 3

SpeechTexts == { <<"a">>, <<"b">> }
Bella == <<"B">>
SpeechVoices == { None, Some(<<"c">>) }

\* TTSManager._get_cache_key, and cache_file.name
TTSManager_get_cache_key(text, voice) == text \o <<":">> \o voice

\* _load_cache_info
_load_cache_info(file) == IF file.exists /\ file.ok THEN file.info ELSE NoCacheInfo

\* _save_cache_info; a failure is printed and swallowed.
_save_cache_info(info, file, outcome) ==
  CASE outcome = "ok" -> [exists |-> TRUE, ok |-> TRUE, info |-> info]
    [] outcome = "open_failed" -> file
    [] outcome = "dump_failed" -> [exists |-> TRUE, ok |-> FALSE, info |-> NoCacheInfo]

\* read_text_aloud(text, voice) up to the call of generate_speech:
\* manager = TTSManager(), with a lock and a cache_info of its own.
ReadTextAloud(t, text, voice) ==
  /\ speech[t].pc = "idle"
  /\ speech[t].calls < MaxSpeak
  /\ speech' = [speech EXCEPT ![t] =
       [@ EXCEPT !.pc = "check", !.text = text,
                 !.voice = IF Truthy(voice) THEN voice[1] ELSE Bella,
                 !.attempt = 0, !.holds = FALSE, !.waiting = FALSE, !.ret = "none",
                 !.cache_info = _load_cache_info(cache_info_json)]]
  /\ UNCHANGED <<mp3, cache_info_json, tm_time>>

\* generate_speech, lines 86-94: the cache check under the manager's lock.
CheckCache(t, playOK) ==
  /\ speech[t].pc = "check"
  /\ ~speech[t].holds
  /\ LET cache_key == TTSManager_get_cache_key(speech[t].text, speech[t].voice)
     IN  IF cache_key \in DOMAIN mp3
           THEN speech' = [speech EXCEPT ![t] =
                  [@ EXCEPT !.pc = "cleanup", !.ret = IF playOK THEN "True" ELSE "False"]]
           ELSE /\ playOK
                /\ speech' = [speech EXCEPT ![t] = [@ EXCEPT !.pc = "generate"]]
  /\ UNCHANGED <<mp3, cache_info_json, tm_time>>

\* The except clause of the retry loop, lines 118-123.
Retry(s) ==
  IF s.attempt = TTS_MAX_RETRIES - 1
    THEN [s EXCEPT !.pc = "cleanup", !.ret = "False", !.holds = FALSE]
    ELSE [s EXCEPT !.pc = "generate", !.attempt = @ + 1, !.holds = FALSE]

\* audio = generate(text=text, voice=voice), line 100
Generate(t, ok) ==
  /\ speech[t].pc = "generate"
  /\ speech' = [speech EXCEPT ![t] = IF ok THEN [@ EXCEPT !.pc = "save"] ELSE Retry(@)]
  /\ UNCHANGED <<mp3, cache_info_json, tm_time>>

\* `with self.cache_lock:`, line 103
AcquireToSave(t) ==
  /\ speech[t].pc = "save"
  /\ ~speech[t].holds
  /\ speech' = [speech EXCEPT ![t] = [@ EXCEPT !.pc = "write", !.holds = TRUE]]
  /\ UNCHANGED <<mp3, cache_info_json, tm_time>>

\* cache_file.write_bytes(audio), line 104; an exception leaves the with
\* block, which releases the lock.
WriteBytes(t, ok) ==
  /\ speech[t].pc = "write"
  /\ LET cache_key == TTSManager_get_cache_key(speech[t].text, speech[t].voice)
     IN  IF ok
           THEN /\ mp3' = DictPut(mp3, cache_key, speech[t].text)
                /\ speech' = [speech EXCEPT ![t] = [@ EXCEPT !.pc = "bookkeeping"]]
           ELSE /\ mp3' = mp3
                /\ speech' = [speech EXCEPT ![t] = Retry(@)]
  /\ UNCHANGED <<cache_info_json, tm_time>>

\* lines 105-110: the files table and total_size of this manager
Bookkeeping(t, dt) ==
  /\ speech[t].pc = "bookkeeping"
  /\ LET cache_key == TTSManager_get_cache_key(speech[t].text, speech[t].voice)
         file_size == Len(mp3[cache_key])
     IN  speech' = [speech EXCEPT ![t] =
           [@ EXCEPT !.pc = "manage",
                     !.cache_info =
                       [files |-> DictPut(@.files, cache_key,
                                          [timestamp |-> tm_time + dt, size |-> file_size]),
                        total_size |-> @.total_size + file_size]]]
  /\ tm_time' = tm_time + dt
  /\ UNCHANGED <<mp3, cache_info_json>>

\* self._manage_cache_size(), line 111, up to its `with self.cache_lock:`,
\* line 63.  threading.Lock is not reentrant: a thread that asks for a lock
\* it holds waits, and only the holder can release it.
ManageCacheSize(t) ==
  /\ speech[t].pc = "manage"
  /\ speech' = [speech EXCEPT ![t] = [@ EXCEPT !.pc = "lock", !.waiting = TRUE]]
  /\ UNCHANGED <<mp3, cache_info_json, tm_time>>

\* manager.cleanup(), lines 137-143 and 150-152: _save_cache_info, without
\* the lock; then read_text_aloud returns.
Cleanup(t, outcome) ==
  /\ speech[t].pc = "cleanup"
  /\ cache_info_json' = _save_cache_info(speech[t].cache_info, cache_info_json, outcome)
  /\ speech' = [speech EXCEPT ![t] = [@ EXCEPT !.pc = "idle", !.calls = @ + 1]]
  /\ UNCHANGED <<mp3, tm_time>>

TMInit ==
  /\ speech = [t \in Threads |-> NoSpeech]
  /\ mp3 \in {EmptyDict, TTSManager_get_cache_key(<<"a">>, Bella) :> <<"a">>}
  /\ cache_info_json = [exists |-> FALSE, ok |-> TRUE, info |-> NoCacheInfo]
  /\ tm_time = 1

TMInitial == KBIdle /\ TCIdle /\ TMInit

TMNext ==
  \/ \E t \in Threads, text \in SpeechTexts, voice \in SpeechVoices :
       ReadTextAloud(t, text, voice) /\ UNCHANGED <<runVars, fnVars, kbVars, feVars, tcVars, laterVars>>
  \/ \E t \in Threads, playOK \in BOOLEAN :
       CheckCache(t, playOK) /\ UNCHANGED <<runVars, fnVars, kbVars, feVars, tcVars, laterVars>>
  \/ \E t \in Threads, ok \in BOOLEAN :
       Generate(t, ok) /\ UNCHANGED <<runVars, fnVars, kbVars, feVars, tcVars, laterVars>>
  \/ \E t \in Threads : AcquireToSave(t) /\ UNCHANGED <<runVars, fnVars, kbVars, feVars, tcVars, laterVars>>
  \/ \E t \in Threads, ok \in BOOLEAN :
       WriteBytes(t, ok) /\ UNCHANGED <<runVars, fnVars, kbVars, feVars, tcVars, laterVars>>
  \/ \E t \in Threads, dt \in 0..1 :
       Bookkeeping(t, dt) /\ UNCHANGED <<runVars, fnVars, kbVars, feVars, tcVars, laterVars>>
  \/ \E t \in Threads : ManageCacheSize(t) /\ UNCHANGED <<runVars, fnVars, kbVars, feVars, tcVars, laterVars>>
  \/ \E t \in Threads, outcome \in SaveOutcomes :
       Cleanup(t, outcome) /\ UNCHANGED <<runVars, fnVars, kbVars, feVars, tcVars, laterVars>>

SpecTM == TMInitial /\ [][TMNext]_vars

\* C9: no thread asks for a cache lock that it holds.
C9_NoSelfDeadlock ==
  \A t \in Threads : ~(speech[t].waiting /\ speech[t].holds)

\* A thread is between taking the lock to save (line 103) and releasing it.
Mutating(t) == speech[t].pc \in {"write", "bookkeeping", "manage", "lock"}

\* C10: two concurrent read_text_aloud calls are never both inside the
\* section that writes the cache file and updates the bookkeeping.
C10_MutationExclusive ==
  \A t1, t2 \in Threads : (t1 # t2 /\ Mutating(t1)) => ~Mutating(t2)

----------------------------------------------------------------------------
\* Methods of KnowledgeBase, TTSCache and TTSManager called on their own.

\* The batches whose cache keys are compared.
BatchSamples == SeqsUpTo({<<"a">>, <<"a", "a">>}, BATCH_SIZE)

\* The cache keys TTSCache gives two (text, voice) pairs.
TTSCacheKeys(p1, p2) ==
  /\ fn.op = "none"
  /\ fn' = [op |-> "TTSCache._get_cache_key", args |-> <<p1, p2>>,
            ret |-> <<_get_cache_key(p1[1], p1[2]), _get_cache_key(p2[1], p2[2])>>]
  /\ UNCHANGED <<kbVars, runVars, feVars, tcVars, tmVars, laterVars>>

\* The cache keys TTSManager gives two (text, voice) pairs.
TTSManagerKeys(p1, p2) ==
  /\ fn.op = "none"
  /\ fn' = [op |-> "TTSManager._get_cache_key", args |-> <<p1, p2>>,
            ret |-> <<TTSManager_get_cache_key(p1[1], p1[2]),
                      TTSManager_get_cache_key(p2[1], p2[2])>>]
  /\ UNCHANGED <<kbVars, runVars, feVars, tcVars, tmVars, laterVars>>

\* The cache keys _process_batch_embeddings gives two batches.
BatchKeys(b1, b2) ==
  /\ fn.op = "none"
  /\ fn' = [op |-> "cache_key", args |-> <<b1, b2>>,
            ret |-> <<BatchCacheKey(b1), BatchCacheKey(b2)>>]
  /\ UNCHANGED <<kbVars, runVars, feVars, tcVars, tmVars, laterVars>>

FnInit ==
  /\ KBInit
  /\ files \in { <<>>, << <<"a">> >> }
  /\ cache_dir = EmptyDict
  /\ fn = NoApply
  /\ fe = FEIdle
  /\ TCIdle
  /\ TMIdle

\* The methods are called on objects of their own (they read nothing of
\* them); initialize and query run on another KnowledgeBase.
FnNext ==
  \/ \E md \in MetadataSamples, filters \in FilterSamples :
       pc = "new" /\ calls = 0 /\ MatchesFilters(md, filters)
  \/ \E md \in MetadataSamples, category \in CategorySamples :
       pc = "new" /\ calls = 0 /\ MatchesCategory(md, category)
  \/ \E p1 \in TTSTexts \X TTSVoices, p2 \in TTSTexts \X TTSVoices :
       pc = "new" /\ calls = 0 /\ TTSCacheKeys(p1, p2)
  \/ \E p1 \in TTSTexts \X TTSVoices, p2 \in TTSTexts \X TTSVoices :
       pc = "new" /\ calls = 0 /\ TTSManagerKeys(p1, p2)
  \/ \E b1 \in BatchSamples, b2 \in BatchSamples :
       pc = "new" /\ calls = 0 /\ BatchKeys(b1, b2)
  \/ fn.op = "none" /\ calls = 0 /\ InitializeStart
       /\ UNCHANGED <<runVars, fnVars, feVars, tcVars, tmVars, laterVars>>
  \/ \E ok \in BOOLEAN : ReadFile(ok) /\ UNCHANGED <<runVars, fnVars, feVars, tcVars, tmVars, laterVars>>
  \/ ProcessBatchBegin /\ UNCHANGED <<runVars, fnVars, feVars, tcVars, tmVars, laterVars>>
  \/ EncodeText /\ UNCHANGED <<runVars, fnVars, feVars, tcVars, tmVars, laterVars>>
  \/ \E ok \in BOOLEAN : ApiAttempt(ok) /\ UNCHANGED <<runVars, fnVars, feVars, tcVars, tmVars, laterVars>>
  \/ ApiSleep /\ UNCHANGED <<runVars, fnVars, feVars, tcVars, tmVars, laterVars>>
  \/ \E saveOK \in BOOLEAN : SaveBatch(saveOK) /\ UNCHANGED <<runVars, fnVars, feVars, tcVars, tmVars, laterVars>>
  \/ BuildIndex /\ UNCHANGED <<runVars, fnVars, feVars, tcVars, tmVars, laterVars>>
  \/ \E query \in QueryTexts, reply \in ExpansionReplies, complOK \in BOOLEAN,
        category \in {None} \cup {Some(c) : c \in {W_api, <<"z">>}},
        filters \in {None} \cup {Some(f) : f \in {EmptyDict, W_file_type :> <<"p", "y">>}} :
       /\ fn.op = "none"
       /\ CallQuery(query, category, filters, reply, complOK)
       /\ UNCHANGED <<runVars, fnVars, feVars, tcVars, tmVars, laterVars>>

SpecFn == FnInit /\ [][FnNext]_vars

----------------------------------------------------------------------------
\* Properties of KnowledgeBase.

Rows == IF embeddings = None THEN <<>> ELSE embeddings[1]

\* initialize stands between two batches, or after the last one.
BatchFinished == pc \in {"read", "build"} /\ pos > 0 /\ batch_summaries = <<>>

Aligned ==
  /\ Len(Rows) = Len(summaries)
  /\ \A p \in 1..Len(summaries) : Rows[p] = EmbeddingOfSummary(summaries[p])

\* C1: whenever initialize has finished a batch, and when it returned True,
\* there are as many embedding rows as summaries and row p is the embedding
\* of the summary at position p.
C1_IndexStoreAlignment ==
  (BatchFinished \/ result = "True") => Aligned

\* C2: when initialize returns False, summaries, metadata and embeddings hold
\* nothing of the batch that failed: they are as the last finished batch
\* left them.
C2_FailedBatchNotApplied ==
  result = "False" =>
    /\ Len(summaries) = committed.docs
    /\ DOMAIN metadata = 0..(committed.docs - 1)
    /\ Len(Rows) = committed.rows

\* C3: query returns (answer, usage) or (None, None); it never raises.
C3_QueryNeverRaises ==
  q.op = "query" => q.outcome \in {"answer", "nonepair"}

\* A query on a knowledge base whose initialization failed, with a failed
\* expansion call.
C3_Witness ==
  /\ q.op = "query"
  /\ result = "False"
  /\ q.expansionFailed
  /\ q.outcome = "nonepair"

\* C5: _api_call_with_retry makes at most MAX_RETRIES calls; it returns the
\* result of the first successful attempt, all earlier ones having failed, and
\* makes no attempt after it; it sleeps only between two attempts; when every
\* attempt fails it raises the failure of the last attempt.
C5_RetryPolicy ==
  /\ api.calls <= MAX_RETRIES
  /\ api.outcome # "exhausted"
  /\ api.outcome = "running" =>
       api.sleeps = (IF pc = "sleep" THEN api.calls - 1 ELSE api.calls)
  /\ api.outcome = "returned" =>
       /\ api.retAttempt = api.calls
       /\ api.lastFailed = api.calls - 1
       /\ api.sleeps = api.calls - 1
  /\ api.outcome = "raised" =>
       /\ api.calls = MAX_RETRIES
       /\ api.sleeps = MAX_RETRIES - 1
       /\ api.err = MAX_RETRIES
       /\ result = "False"

\* Every attempt of one call failed and the last failure reached initialize.
C5_Witness ==
  /\ api.outcome = "raised"
  /\ api.calls = MAX_RETRIES
  /\ api.sleeps = MAX_RETRIES - 1

\* C6: an embedding operation in which an embedding request failed ends with
\* an error: _process_batch_embeddings raises (initialize returns False), and
\* _generate_embeddings raises instead of returning an array.
C6_EmbeddingFailureIsAnError ==
  /\ api.outcome = "raised" => result = "False"
  /\ (q.op = "generate" /\ q.embedFailed) => q.outcome = "raised"

\* C18: when the summary directory holds no *.md file, initialize returns
\* False, makes no embedding request (no API call, no token counted), and
\* leaves summaries, metadata, embeddings, index and the embedding cache as
\* they were.
C18_EmptyDirectory ==
  [][(files = <<>> /\ pc = "new" /\ pc' # "new") =>
       /\ pc' = "done"
       /\ result' = "False"
       /\ api' = api
       /\ embedding_tokens_used' = embedding_tokens_used
       /\ UNCHANGED <<summaries, metadata, embeddings, index, cache_dir>>]_vars

\* initialize has returned False over a directory without summaries, with a
\* cache left by an earlier run in place.
C18_Witness ==
  /\ files = <<>>
  /\ pc = "done"
  /\ result = "False"
  /\ cache_dir # EmptyDict
  /\ q.op = "none"

----------------------------------------------------------------------------
\* Properties of repeated initialization.

\* C11: a second run over the directory, made by a new KnowledgeBase with the
\* embedding cache of an earlier successful run in place, requests no
\* embedding for a file whose content did not change, whatever happened to
\* the other files of the directory.
C11_UnchangedFilesNotReembedded ==
  run.n = 2 => run.requested \cap run.unchanged = {}

\* C13: when a call of initialize that follows a failed call on the same
\* KnowledgeBase returns True, summaries and metadata hold one entry for
\* each file of the directory, at positions 0..n-1, as after a first
\* successful call: nothing of the failed call remains or is duplicated.
C13_RetryFromScratch ==
  (run.attempt > 1 /\ result = "True") =>
    /\ Len(summaries) = Len(files)
    /\ DOMAIN metadata = 0..(Len(files) - 1)

----------------------------------------------------------------------------
\* Properties of the front ends.

\* C12: a front end calls KnowledgeBase.query only after initialize returned
\* True: while it is in its query loop initialize has returned True, and in
\* a run where initialize returned False no query is made.
C12_QueryOnlyAfterInitialize ==
  /\ fe.pc \in {"loop", "qi_run"} => result = "True"
  /\ q.op # "none" => result = "True"
  /\ result = "False" => q.op = "none"

\* initialize returned False and main has returned without a query.
C12_Witness ==
  /\ result = "False"
  /\ fe.pc = "exit"
  /\ files # <<>>
  /\ q.op = "none"

----------------------------------------------------------------------------
\* Properties of the filters of query.

\* Every key of filters is in md with an equal value.
SatisfiesFilters(md, filters) ==
  \A key \in DOMAIN filters : key \in DOMAIN md /\ md[key] = filters[key]

\* C14: _matches_filters(metadata, filters) is true exactly when every key
\* of filters is in metadata with an equal value; and every document that a
\* query given filters places in the context satisfies this.
C14_MetadataFilter ==
  /\ fn.op = "_matches_filters" =>
       (fn.ret <=> SatisfiesFilters(fn.args[1], fn.args[2]))
  /\ (q.op = "query" /\ Truthy(q.filters)) =>
       \A i \in 1..Len(q.context) :
         SatisfiesFilters(metadata[q.context[i]], q.filters[1])

\* _matches_filters has turned down a document that has one of the two keys
\* of the filter with the value asked for, and the other with another value.
C14_Witness ==
  /\ fn.op = "_matches_filters"
  /\ fn.args[1] = (W_directory :> W_api @@ W_file_type :> <<"m", "d">>)
  /\ fn.args[2] = (W_directory :> W_api @@ W_file_type :> <<"p", "y">>)
  /\ ~fn.ret

\* md has a directory that contains, letter case apart, a keyword of the
\* category.
InCategory(md, category) ==
  /\ W_directory \in DOMAIN md
  /\ \E term \in category_mappings[category] : Contains(Lower(term), Lower(md[W_directory]))

\* C15: for a category of the table, _matches_category lets through exactly
\* the documents whose directory contains, letter case apart, a keyword of
\* the category (a document without directory is turned down); and every
\* document that a query given such a category places in the context is one
\* of them.
C15_CategoryFilter ==
  /\ (fn.op = "_matches_category" /\ fn.args[2] \in DOMAIN category_mappings) =>
       (fn.ret <=> InCategory(fn.args[1], fn.args[2]))
  /\ (q.op = "query" /\ Truthy(q.category) /\ q.category[1] \in DOMAIN category_mappings) =>
       \A i \in 1..Len(q.context) : InCategory(metadata[q.context[i]], q.category[1])

\* _matches_category has let through a document whose directory holds the
\* keyword in capitals.
C15_Witness ==
  /\ fn.op = "_matches_category"
  /\ fn.args[2] = W_api
  /\ W_directory \in DOMAIN fn.args[1]
  /\ fn.args[1][W_directory] = <<"s", "r", "c", "/", "A", "P", "I">>
  /\ fn.ret

----------------------------------------------------------------------------
\* Properties of query.

\* C17: a query whose expansion call failed goes on with no expansions: it
\* counts none, and when nothing else stands in its way (initialize returned
\* True over at least one document, no category and no filters are given, no
\* embedding request failed) it reaches the answer completion, so that the
\* failed expansion alone never makes it return (None, None).
C17_ExpansionBestEffort ==
  (q.op = "query" /\ q.expansionFailed) =>
    /\ q.expansions = 0
    /\ ( /\ result = "True"
         /\ summaries # <<>>
         /\ index # None
         /\ index[1] # <<>>
         /\ ~Truthy(q.category)
         /\ ~Truthy(q.filters)
         /\ ~q.embedFailed )
       => (q.outcome = "answer" \/ q.completions = 1)

----------------------------------------------------------------------------
\* Properties of TTSCache, continued.

\* C19: a get that finds its key in the index and the blob missing or
\* unreadable returns None and removes that entry from the index, leaving
\* every other entry as it was.
C19_BadEntryDiscarded ==
  [][LET cache_key == _get_cache_key(tc'.text, tc'.voice)
     IN  ( /\ tc.pc = "idle"
           /\ tc'.pc = "idle"
           /\ tc'.got
           /\ cache_key \in DOMAIN cache_index
           /\ (cache_key \notin DOMAIN blobs \/ tc'.ret = None) )
         => /\ tc'.ret = None
            /\ cache_index' = DictDel(cache_index, cache_key)]_vars

\* C20: once a put, a get or an eviction has completed, and whenever no put
\* is under way, the keys of the index are the keys that have a blob file.
C20_IndexBlobConsistency ==
  (tc.pc = "idle" /\ (tc.puts > 0 \/ tc.got \/ tc.evicted.happened)) =>
    DOMAIN cache_index = DOMAIN blobs

----------------------------------------------------------------------------
\* Properties of the embedding cache.

\* C21: each time _process_batch_embeddings has stored a batch file (np.save
\* succeeded, the file-system clock has ticked), _manage_cache_size returns
\* normally, so that the batch is not failed by it, and the files of the
\* cache directory are together within MAX_CACHE_SIZE afterwards.
C21_CacheBudget ==
  [][(pc = "save" /\ clock' # clock) =>
       /\ result' # "False"
       /\ ~OverLimit(cache_dir')]_vars

\* C22: different inputs get different cache keys: two different (text,
\* voice) pairs never get the same TTS cache key, in TTSCache and in
\* TTSManager, and two different batches of texts never get the same
\* embedding cache key.
C22_KeysSeparateEntries ==
  fn.op \in {"TTSCache._get_cache_key", "TTSManager._get_cache_key", "cache_key"} =>
    (fn.args[1] # fn.args[2] => fn.ret[1] # fn.ret[2])

\* C23: while _process_batch_embeddings computes the rows of a batch, the
\* rows it has so far are the embeddings of the first texts of the batch, in
\* the order of the texts; when it saves them there is one row for each
\* text; and the rows of a batch are appended after the rows of the batches
\* processed before it, which stay as they are.
C23_OrderPreservation ==
  /\ [](pc \in {"encode", "attempt", "sleep", "save"} =>
         /\ Len(embs) <= Len(batch_summaries)
         /\ \A i \in 1..Len(embs) : embs[i] = EmbeddingOfSummary(batch_summaries[i])
         /\ pc = "save" => Len(embs) = Len(batch_summaries))
  /\ [][/\ (pc = "save" /\ pc' \in {"read", "build"}) => Rows' = Rows \o embs
        /\ embeddings' # embeddings =>
             (Len(Rows) <= Len(Rows') /\ SubSeq(Rows', 1, Len(Rows)) = Rows)]_vars

\* The two different texts of a batch have been embedded, one after the other.
C23_Witness ==
  /\ pc = "save"
  /\ Len(embs) = 2
  /\ embs[1] # embs[2]

----------------------------------------------------------------------------
\* Properties of TTSCache across a crash.

\* C24: when the process has stopped inside a put (in its eviction loop or
\* after it) and the cache is opened again, the index file is readable,
\* every key of the index loaded from it has its blob, and the loaded index
\* is the index that was in memory when the process stopped, but for the
\* entry of the key that was being put.
C24_CrashConsistency ==
  [][(tc.pc = "crashed" /\ tc'.pc = "idle") =>
       LET cache_key == _get_cache_key(tc.text, tc.voice)
       IN  /\ cache_index_file.ok
           /\ DOMAIN cache_index' \subseteq DOMAIN blobs'
           /\ \A k \in (DOMAIN cache_index \cup DOMAIN cache_index') \ {cache_key} :
                /\ k \in DOMAIN cache_index
                /\ k \in DOMAIN cache_index'
                /\ cache_index[k] = cache_index'[k]]_vars

----------------------------------------------------------------------------
\* Properties of the remote calls of KnowledgeBase.

\* C25: no remote call of the knowledge base gives up at its first failure:
\* when an ingest embedding request ends in an error, when
\* _generate_embeddings (called here with one text) ends with a failed
\* request, when the term expansion has failed, and when the answer
\* completion has failed, the call was made at least twice.
C25_RemoteCallsRetried ==
  /\ api.outcome = "raised" => api.calls >= 2
  /\ (q.op = "generate" /\ q.embedFailed) => q.requests >= 2
  /\ (q.op = "query" /\ q.expansionFailed) => q.expansionCalls >= 2
  /\ (q.op = "query" /\ q.completions > 0 /\ q.outcome # "answer") => q.completions >= 2

----------------------------------------------------------------------------
\* Properties of the document store.

\* What initialize stores for a file: its content, without the metadata
\* line when it has one.
SummaryOf(content) ==
  LET lines == Split(content, "\n")
  IN  IF DOMAIN _extract_metadata(lines) # {} THEN JoinSep(Tail(lines), "\n") ELSE content

\* C26: when initialize has read n files, summaries has n entries and
\* metadata the keys 0..n-1, and the i-th file found is stored at position i
\* (i-1 from zero); the batch being read starts at a multiple of BATCH_SIZE
\* and is the last summaries stored, and a batch handed to
\* _process_batch_embeddings holds BATCH_SIZE files unless it is the last.
C26_DensePositions ==
  /\ Len(summaries) = pos
  /\ DOMAIN metadata = 0..(pos - 1)
  /\ \A i \in 1..pos :
       /\ summaries[i] = SummaryOf(files[i])
       /\ metadata[i - 1] = _extract_metadata(Split(files[i], "\n"))
  /\ pc \in {"read", "process", "encode", "attempt", "sleep", "save"} =>
       /\ Len(batch_summaries) <= pos
       /\ (pos - Len(batch_summaries)) % BATCH_SIZE = 0
       /\ batch_summaries = SubSeq(summaries, pos - Len(batch_summaries) + 1, pos)
       /\ pc = "read" => Len(batch_summaries) < BATCH_SIZE
       /\ pc # "read" => (Len(batch_summaries) = BATCH_SIZE \/
                          (pos = Len(files) /\ Len(batch_summaries) \in 1..BATCH_SIZE))

\* The second batch, that of the third file, is handed to
\* _process_batch_embeddings; the file has a metadata line.
C26_Witness ==
  /\ pc = "process"
  /\ pos = 3
  /\ Len(batch_summaries) = 1
  /\ DOMAIN metadata[2] # {}


\* The tokens of the first n of the texts, as len(self.enc.encode(text)) counts them.
RECURSIVE TokensOf(_, _)
TokensOf(texts, n) ==
  IF n = 0 THEN 0 ELSE Len(Encode(texts[n])) + TokensOf(texts, n - 1)

\* The first EMBEDDING_CTX_LENGTH tokens of a text, decoded.
FirstTokens(text) ==
  Decode(SubSeq(Encode(text), 1, Min(Len(Encode(text)), EMBEDDING_CTX_LENGTH)))

\* The text the ingest path is embedding while a request is outstanding.
TextBeingEmbedded == _preprocess_text(batch_summaries[Len(embs) + 1])

AfterCategory(input) ==
  IF CategoryMatch(input).matched THEN CategoryMatch(input).group2 ELSE input

\* s from position i on, without its #key:value tokens.
RECURSIVE WithoutTokens(_, _)
WithoutTokens(s, i) ==
  IF i > Len(s) THEN <<>>
  ELSE LET n == RunLength(s, i + 1, WordChars, TRUE)
           m == RunLength(s, i + n + 2, Whitespace, FALSE)
       IN  IF s[i] = "#" /\ n >= 1 /\ i + n + 1 <= Len(s) /\ s[i + n + 1] = ":" /\ m >= 1
             THEN WithoutTokens(s, i + n + 2 + m)
             ELSE <<s[i]>> \o WithoutTokens(s, i + 1)

NonBlank(s) == SelectSeq(s, LAMBDA c : c \notin Whitespace)

\* C29: the text the front end passes to kb.query is the input without its
\* leading @category: prefix and without its #key:value tokens: apart from
\* white space, no other character is removed and no part of a token is left.
C29_FilterTokensStripped ==
  fe.asked => NonBlank(fe.query) = NonBlank(WithoutTokens(AfterCategory(fe.input), 1))


\* C30: every turn of the eviction loop of put leaves fewer entries in the
\* index than it found, also when unlinking the blob of the evicted entry
\* fails, so that the loop ends after at most as many turns as there were
\* entries.
C30_EvictionTurnReduces ==
  [][(tc.pc = "put" /\ tc'.pc = "put" /\ EvictionNeeded(cache_index)) =>
       Cardinality(DOMAIN cache_index') < Cardinality(DOMAIN cache_index)]_vars


\* The pair put is running for has an entry in the index.
PairCached ==
  LET cache_key == _get_cache_key(tc.text, tc.voice)
  IN  /\ cache_key \in DOMAIN cache_index
      /\ cache_index[cache_key].text = tc.text
      /\ cache_index[cache_key].voice = tc.voice

\* C31: a put for a pair that has an entry in the cache removes the entry of
\* no other pair, however many entries there are (no file operation failing).
C31_ReplaceEvictsNoOther ==
  [][(tc.pc = "put" /\ PairCached /\ tc.faults = 0 /\ tc'.faults = 0) =>
       \A k \in DOMAIN cache_index \ {_get_cache_key(tc.text, tc.voice)} :
         k \in DOMAIN cache_index']_vars


\* C32: read_text_aloud ends with True or False; for one request it calls
\* generate at most MAX_RETRIES + 1 times and calls it again only after an
\* error that mentions network or timeout; after the last failed attempt it
\* has run the fallback engine when there is one and returned False otherwise.
C32_ReadAloudReturnsBoolean ==
  /\ rta.generated <= RTA_MAX_RETRIES + 1
  /\ rta.retried \subseteq {"network"}
  /\ rta.pc = "done" =>
       /\ rta.ret \in {"True", "False"}
       /\ rta.failed => IF rta.fallback_engine THEN rta.fellBack ELSE rta.ret = "False"


\* A script was found missing, or a stage that was started did not exit with 0.
PipelineBroken ==
  \/ master.missing # 0
  \/ \E k \in 1..Len(master.exits) : master.exits[k] # Exited(0)

\* C33: the stages are started in the order path collection, summarization,
\* query interface, each only after the one before it has exited with 0;
\* after the first missing script or failed stage no stage is started.
C33_StagesInOrder ==
  /\ [](/\ \A k \in 1..Len(master.started) : master.started[k] = Scripts[k]
        /\ \A k \in 1..(Len(master.started) - 1) :
             k <= Len(master.exits) /\ master.exits[k] = Exited(0))
  /\ [][PipelineBroken => master'.started = master.started]_vars

\* All three stages ran and exited with 0.
C33_Witness ==
  /\ master.pc = "done"
  /\ master.started = Scripts
  /\ master.exits = <<Exited(0), Exited(0), Exited(0)>>


\* The positions of all stored documents, as a search may return them.
AllPositions == [i \in 1..Len(summaries) |-> i - 1]

\* C34: for a category that is not a key of the category table (a key written
\* in other letter case included) _matches_category lets every document
\* through, and the filter loop of query keeps the same positions with such a
\* category as with no category.
C34_UnknownCategoryNoFilter ==
  /\ (fn.op = "_matches_category" /\ fn.args[2] \notin DOMAIN category_mappings) => fn.ret
  /\ \A category \in CategorySamples \ DOMAIN category_mappings :
       FilterIndices(AllPositions, Some(category), None)
         = FilterIndices(AllPositions, None, None)

\* _matches_category was given API, which the table has as api, and a
\* document of a directory category api turns down; it was let through.
C34_Witness ==
  /\ fn.op = "_matches_category"
  /\ fn.args[2] = <<"A", "P", "I">>
  /\ fn.args[1] = (W_directory :> <<"z", "z">>)
  /\ ~_matches_category(fn.args[1], W_api)
  /\ fn.ret


\* C36: at most one call of select_voice is in its panel, and
\* voice_selection_active is False whenever no call of select_voice is in
\* progress, so that the next Ctrl+L opens the panel.
C36_VoiceSelectionFlag ==
  /\ Cardinality({c \in Callers : sv.call[c].pc = "panel"}) <= 1
  /\ (\A c \in Callers : sv.call[c].pc = "idle") => ~sv.voice_selection_active


\* The inputs that count as queries: not empty, not help, not a quit command.
CountedInputs(inputs) ==
  {i \in 1..Len(inputs) :
     inputs[i] # <<>> /\ Lower(inputs[i]) \notin {W_quit, W_exit, W_q, W_help}}

\* C37: once a query has completed, last_response is the answer of that
\* query, or None when it gave none; a Ctrl+N after it speaks that answer or
\* reports that there is nothing to read; queries counts the inputs that are
\* not empty and neither help nor a quit command.
C37_LastResponseAndCounter ==
  /\ fe.asked =>
       fe.last_response = IF q.outcome = "answer" THEN Some("answer") ELSE None
  /\ fe.ctrl_n # "none" =>
       fe.ctrl_n = IF fe.last_response # None
                     THEN fe.last_response[1] ELSE "nothing to read"
  /\ fe.queries = Cardinality(CountedInputs(fe.inputs))

\* help and a query were typed, the query gave no answer, and Ctrl+N
\* reported that there is nothing to read.
C37_Witness ==
  /\ fe.inputs = <<W_help, <<"x">> >>
  /\ fe.queries = 1
  /\ fe.asked
  /\ fe.last_response = None
  /\ fe.ctrl_n = "nothing to read"


\* C38: HotkeyManager.streaming is True exactly while a transcription started
\* by Ctrl+S is running.
C38_StreamingFlag ==
  stt.pc # "new" => (stt.hk_streaming <=> stt.pc \in {"loop", "stopping"})

\* C39: what stream_audio has passed to the callback are texts, each once, in
\* the order the listener put them on the queue, never an error message; and
\* once the loop has ended nothing more is passed.
C39_QueueDelivery ==
  /\ [](/\ \A i \in 1..Len(stt.delivered) : stt.delivered[i].msg_type = "text"
        /\ \A i, j \in 1..Len(stt.delivered) :
             i < j => stt.delivered[i].id < stt.delivered[j].id)
  /\ [][(stt.pc # "loop" /\ stt'.pc # "loop") => stt'.delivered = stt.delivered]_vars

\* Two texts with an error message between them were put on the queue; the
\* first text was passed to the callback, the error was not, and streaming
\* stopped with the second text still queued.
C39_Witness ==
  /\ stt.pc = "idle"
  /\ stt.heard = 3
  /\ stt.delivered = <<Item(1, "text")>>
  /\ stt.stream_queue = <<Item(3, "text")>>

=============================================================================
